---- MODULE Spec2Model ----
(***************************************************************************)
(* COT Pulse backend: the user record store, the dual-backend persistence  *)
(* layer (db.js), the Stripe webhook reconciler (routes/stripe.js), the     *)
(* password reset routes (routes/passwordReset.js), the credential routes  *)
(* (routes/auth.js) and the startup of the server (server.js).             *)
(*                                                                         *)
(* A request handler runs on Node's single thread: everything between two  *)
(* awaits of a pending promise is one atomic step.  A promise returned by  *)
(* db.run / db.get that nobody awaits is either already settled when the   *)
(* call returns (embedded backend: sql.js is synchronous) or stays in      *)
(* flight at the pool (networked backend) and settles in a later step.     *)
(* Timestamps (created_at, updated_at) are not part of the modelled row.   *)
(* The clock counts hours; a reset token lives for TOKEN_EXPIRATION_MS,    *)
(* one hour.                                                               *)
(***************************************************************************)
EXTENDS Naturals, Sequences, FiniteSets, Bags, TLC

VARIABLES
    USE_POSTGRES,   \* db.js:15, fixed when the process starts
    users,          \* the users table: a set of rows
    inflight,       \* networked backend: queries sent to the pool, not yet settled (a bag)
    resp,           \* the response sent to the last request
    log,            \* the last line the handlers wrote to the console
    fault,          \* whether the store failed the statement of the last request
    up,             \* the process is running
    dup,            \* bookkeeping of a duplicate-delivery run (SpecDup only)
    tokens,         \* the password_reset_tokens table: a set of rows
    now,            \* the clock (Date.now()), in hours
    generated,      \* generated[k]: the user and the hour the k-th reset secret was generated for
    pending,        \* networked backend: reset-password requests awaiting the store (a bag)
    hist,           \* what reset-password has answered so far, per secret
    cred,           \* the token field of the last response (signup and login carry one)
    held,           \* the credentials clients have kept from the responses they got
    loggedOut,      \* the credentials a logout has been acknowledged for
    signing,        \* signups that passed validation and await bcrypt.hash (a bag)
    customers,      \* Stripe: customers[k] is the user the k-th customer was created for
    sessions,       \* Stripe: the checkout sessions created, each with its user and customer
    checkouts,      \* create-checkout-session requests that await stripe.customers.create (a bag)
    boot,           \* startServer: where it stands and what it has established
    reachable,      \* the backend answers: the PostgreSQL server, or the files of sql.js
    file,           \* embedded backend: the image saveSqlite wrote to the database file last
    answer,         \* what the last call of run, exec, get or all has settled with
    written,        \* the text of a statement as its caller wrote it
    converted       \* what convertPlaceholders made of that text

resetVars == <<tokens, now, generated, pending, hist>>

sessionVars == <<held, loggedOut>>

flowVars == <<signing, customers, sessions, checkouts>>

bootVars == <<boot, reachable>>

callVars == <<answer, written, converted>>

vars == <<USE_POSTGRES, users, inflight, resp, log, fault, up, dup,
          tokens, now, generated, pending, hist, cred, held, loggedOut, signing,
          customers, sessions, checkouts, boot, reachable, file, answer, written, converted>>

\* ------------------------------------------------------------ bounds
MaxInflight == 2
MaxClock == 2       \* the clock stops here
MaxPending == 2     \* requests of one route that await together
MaxLen == 5         \* characters of a statement text

\* ------------------------------------------------------------ values
Absent == "undefined"          \* a missing property (JavaScript undefined)
NULL == "NULL"                 \* SQL NULL

UserIds == {"u1", "u2"}
Customers == {"cus_1", "cus_2"}
\* stripe.customers.create: the k-th customer created gets the id CustomerIds[k]
CustomerIds == <<"cus_1", "cus_2">>
Statuses == {"active", "trialing", "canceled", "paused"}   \* "paused": any status the code does not name

RawEmails == {"a@b.com", "A@B.com", "c@d.com", "not-an-email", ""}
Passwords == {"short", "longenough1", ""}
ResetPasswords == {"short", "newpassword1", ""}

\* crypto.randomBytes(32).toString('hex'): the k-th secret generated is Secrets[k]
Secrets == <<"s1", "s2">>
\* what a caller may present as token: a secret, something never issued, or nothing
PresentedTokens == {"s1", "s2", "bogus", ""}

\* TOKEN_EXPIRATION_MS (passwordReset.js 15), in hours
TokenTtl == 1

WebhookSecret == "whsec"

\* process.env.JWT_SECRET (auth.js 12), set in the environment of the process
JWT_SECRET == "jwtsecret"

\* JWT_EXPIRATION = '7d' (auth.js 13), in hours
JWT_EXPIRATION == 168

\* email.toLowerCase().trim() on the inputs above
Normalize(email) ==
    CASE email = "A@B.com" -> "a@b.com"
      [] OTHER -> email

\* /^[^\s@]+@[^\s@]+\.[^\s@]+$/ on the inputs above
EmailRegexTest(email) == email \in {"a@b.com", "A@B.com", "c@d.com"}

PasswordLength(p) ==
    CASE p = "" -> 0
      [] p = "short" -> 5
      [] OTHER -> 11

\* bcrypt.hash(password, SALT_ROUNDS): one-way, a different hash for a different password
BcryptHash(p) ==
    CASE p = "longenough1" -> "$2a$12$(longenough1)"
      [] p = "newpassword1" -> "$2a$12$(newpassword1)"
      [] p = "short" -> "$2a$12$(short)"
      [] OTHER -> "$2a$12$()"

\* ------------------------------------------------------------ users table
\* A timestamp column: NULL, or the hour that was written
NoTime == <<>>
At(clock) == <<clock>>

NewUserRow(id, email, hash, name) ==
    [id |-> id, email |-> email, password_hash |-> hash, name |-> name,
     subscription_tier |-> "free", subscription_status |-> "active",
     stripe_customer_id |-> NULL, last_login |-> NoTime]

HasRow(tbl, id) == \E r \in tbl : r.id = id
RowOf(tbl, id) == CHOOSE r \in tbl : r.id = id

\* ------------------------------------------------------------ statements
\* A statement is the SQL text (named by what it does), the placeholder syntax it is
\* written in, and its parameters.
Stmt(sql, params) == [sql |-> sql, ph |-> "?", params |-> params]

\* db.js convertPlaceholders: ? -> $1, $2, ... on the networked backend only
convertPlaceholders(postgres, stmt) ==
    IF ~postgres THEN stmt ELSE [stmt EXCEPT !.ph = "$n"]

\* The text of a statement, character by character.  The characters that matter:
\* the placeholder, a letter, and the two that make up a PostgreSQL parameter.
Texts == UNION {[1..n -> {"?", "a", "$", "1"}] : n \in 0..MaxLen}

\* `${index}`: the decimal digits of a number
RECURSIVE Decimal(_)
Decimal(n) ==
    LET digits == <<"0", "1", "2", "3", "4", "5", "6", "7", "8", "9">>
    IN  IF n < 10 THEN <<digits[n + 1]>>
        ELSE Decimal(n \div 10) \o <<digits[(n % 10) + 1]>>

\* sql.replace(/\?/g, () => `$${++index}`): the text is scanned from the left, every
\* match is replaced by what the function returns for it, index counts the matches
RECURSIVE Replace(_, _)
Replace(text, index) ==
    IF text = <<>> THEN <<>>
    ELSE IF Head(text) = "?"
    THEN <<"$">> \o Decimal(index + 1) \o Replace(Tail(text), index + 1)
    ELSE <<Head(text)>> \o Replace(Tail(text), index)

\* sql.replace(/\?/, ...) without the g flag: the first match only
RECURSIVE ReplaceFirst(_)
ReplaceFirst(text) ==
    IF text = <<>> THEN <<>>
    ELSE IF Head(text) = "?" THEN <<"$", "1">> \o Tail(text)
    ELSE <<Head(text)>> \o ReplaceFirst(Tail(text))

convertPlaceholdersFirst(postgres, text) ==
    IF ~postgres THEN text ELSE ReplaceFirst(text)

\* db.js convertPlaceholders on the text of a statement
convertPlaceholdersText(postgres, text) ==
    IF ~postgres THEN text ELSE Replace(text, 0)

\* A row as UPDATE users SET subscription_tier = ?, subscription_status = ? leaves it.
\* The stale variant derives the tier from the status the row held before the update.
SetSubscriptionStale(r, tier, status) ==
    [r EXCEPT !.subscription_tier =
                  IF r.subscription_status \in {"active", "trialing"} THEN "pro" ELSE "free",
              !.subscription_status = status]

\* An update that also clears the password hash
SetSubscriptionAndHash(r, tier, status) ==
    [r EXCEPT !.subscription_tier = tier, !.subscription_status = status,
              !.password_hash = NULL]

SetSubscription(r, tier, status) ==
    [r EXCEPT !.subscription_tier = tier, !.subscription_status = status]

\* The statements User.updateProfile builds (db.js 669), and what each assigns:
\* the new name and the new email (<<>>: the column is not in the SET list) and the
\* id of the row
ProfileUpdates == {"UPDATE users SET name=? WHERE id=?",
                   "UPDATE users SET email=? WHERE id=?",
                   "UPDATE users SET name=?,email=? WHERE id=?"}

ProfileSet(stmt) ==
    CASE stmt.sql = "UPDATE users SET name=? WHERE id=?" ->
            [name |-> <<stmt.params[1]>>, email |-> <<>>, id |-> stmt.params[2]]
      [] stmt.sql = "UPDATE users SET email=? WHERE id=?" ->
            [name |-> <<>>, email |-> <<stmt.params[1]>>, id |-> stmt.params[2]]
      [] OTHER ->
            [name |-> <<stmt.params[1]>>, email |-> <<stmt.params[2]>>, id |-> stmt.params[3]]

\* A parameter as the backend stores it: node-postgres sends undefined as NULL
SqlValue(v) == IF v = Absent THEN NULL ELSE v

\* What a statement does to the table once the backend executes it.
\* ok = FALSE: the backend raised err and the table is unchanged.
Execute(tbl, stmt) ==
    LET p == stmt.params IN
    CASE stmt.sql = "UPDATE users SET tier=pro,status=active,customer=? WHERE id=?" ->
            [ok |-> TRUE, err |-> "",
             users |-> {IF r.id = p[2]
                        THEN [r EXCEPT !.subscription_tier = "pro",
                                       !.subscription_status = "active",
                                       !.stripe_customer_id = p[1]]
                        ELSE r : r \in tbl}]
      [] stmt.sql = "UPDATE users SET tier=?,status=? WHERE id=?" ->
            [ok |-> TRUE, err |-> "",
             users |-> {IF r.id = p[3]
                        THEN SetSubscription(r, p[1], p[2])
                        ELSE r : r \in tbl}]
      [] stmt.sql = "UPDATE users SET tier=free,status=canceled WHERE id=?" ->
            [ok |-> TRUE, err |-> "",
             users |-> {IF r.id = p[1]
                        THEN SetSubscription(r, "free", "canceled")
                        ELSE r : r \in tbl}]
      [] stmt.sql = "INSERT INTO users (id,email,password_hash,name)" ->
            IF \E r \in tbl : r.id = p[1] \/ r.email = p[2]
            THEN [ok |-> FALSE, err |-> "duplicate key", users |-> tbl]
            ELSE [ok |-> TRUE, err |-> "",
                  users |-> tbl \cup {NewUserRow(p[1], p[2], p[3], SqlValue(p[4]))}]
      [] stmt.sql \in ProfileUpdates ->
            LET set == ProfileSet(stmt) IN
            IF \E r \in tbl, o \in tbl :
                  r.id = set.id /\ o.id # set.id /\ set.email # <<>> /\ o.email = set.email[1]
            THEN [ok |-> FALSE, err |-> "duplicate key", users |-> tbl]
            ELSE [ok |-> TRUE, err |-> "",
                  users |-> {IF r.id = set.id
                             THEN [r EXCEPT !.name = IF set.name = <<>> THEN @
                                                     ELSE SqlValue(set.name[1]),
                                            !.email = IF set.email = <<>> THEN @
                                                      ELSE SqlValue(set.email[1])]
                             ELSE r : r \in tbl}]
      [] stmt.sql = "UPDATE users SET stripe_customer_id=? WHERE id=?" ->
            [ok |-> TRUE, err |-> "",
             users |-> {IF r.id = p[2] THEN [r EXCEPT !.stripe_customer_id = p[1]] ELSE r :
                           r \in tbl}]
      [] stmt.sql = "UPDATE users SET last_login=? WHERE id=?" ->
            [ok |-> TRUE, err |-> "",
             users |-> {IF r.id = p[2] THEN [r EXCEPT !.last_login = p[1]] ELSE r : r \in tbl}]
      [] OTHER -> [ok |-> TRUE, err |-> "", users |-> tbl]      \* SELECT: reads only

\* ------------------------------------------------------------ the two backends
\* A parameter that is JavaScript undefined
HasUndefined(stmt) == \E i \in DOMAIN stmt.params : stmt.params[i] = Absent

Raised(tbl, err) == [ok |-> FALSE, err |-> err, users |-> tbl]

\* Embedded backend, db.js run/get: sqliteDb.run(sql, params) executes before the call
\* returns.  sql.js refuses to bind undefined; f = "stmt" is a statement the store fails.
BindError == "Wrong API use : tried to bind a value of an unknown type"

SqliteRun(tbl, stmt, f) ==
    IF HasUndefined(stmt) THEN Raised(tbl, BindError)
    ELSE IF f = "stmt" THEN Raised(tbl, "store error")
    ELSE Execute(tbl, stmt)

\* Networked backend, db.js run/get: pgPool.query(sql, params) sends the text as it is.
\* PostgreSQL numbers its parameters $1, $2, ...: a statement still written with ?
\* is a syntax error.  node-postgres sends undefined as NULL, which no id equals.
PgQuery(tbl, stmt, f) ==
    IF stmt.ph = "?" /\ Len(stmt.params) > 0 THEN Raised(tbl, "syntax error")
    ELSE IF f = "stmt" THEN Raised(tbl, "store error")
    ELSE Execute(tbl, stmt)

\* db.js run(sql, params): the statement as the active backend settles it
run(postgres, tbl, stmt, f) ==
    IF postgres THEN PgQuery(tbl, stmt, f) ELSE SqliteRun(tbl, stmt, f)

\* db.js query(sql, params): run with automatic placeholder conversion
query(postgres, tbl, stmt, f) ==
    run(postgres, tbl, convertPlaceholders(postgres, stmt), f)

\* ------------------------------------------------------------ console and responses
Line(msg, user, tier, status) == [msg |-> msg, user |-> user, tier |-> tier, status |-> status]
Plain(msg) == Line(msg, Absent, Absent, Absent)

Response(status, body) == [status |-> status, body |-> body]

\* ------------------------------------------------------------ signatures
\* An HMAC (the stripe-signature header, the third part of a JWT): who signed, and
\* what was signed
Sign(secret, body) == [key |-> secret, over |-> body]

\* ------------------------------------------------------------ credentials
\* A token is a payload and a signature over it; kind "garbage" is a string that is
\* no JWT at all.
Claims(userId, email, iat, exp) == [userId |-> userId, email |-> email, iat |-> iat, exp |-> exp]
Jwt(payload, sig) == [kind |-> "jwt", payload |-> payload, sig |-> sig]
Garbage == [kind |-> "garbage", payload |-> Claims(Absent, Absent, 0, 0),
            sig |-> Sign("", Claims(Absent, Absent, 0, 0))]

\* jwt.sign({userId, email}, secret, {expiresIn: JWT_EXPIRATION}) at the hour clock
jwtSign(userId, email, secret, clock) ==
    LET payload == Claims(userId, email, clock, clock + JWT_EXPIRATION)
    IN  Jwt(payload, Sign(secret, payload))

\* jwt.verify(token, secret): the decoded payload, or an error
jwtVerify(token, secret, clock) ==
    IF token.kind # "jwt" THEN [err |-> "jwt malformed", decoded |-> token.payload]
    ELSE IF token.sig # Sign(secret, token.payload)
    THEN [err |-> "invalid signature", decoded |-> token.payload]
    ELSE IF clock >= token.payload.exp
    THEN [err |-> "jwt expired", decoded |-> token.payload]
    ELSE [err |-> "", decoded |-> token.payload]

\* ------------------------------------------------------------ User model and signup
\* User.create (db.js 519-543) inside router.post('/signup') (auth.js 55-122), with a
\* fresh id from crypto.randomUUID().  The handler awaits the INSERT, so the request
\* is answered after the statement settled.  name is a parameter of the INSERT
\* whether or not the request carried one.  What sql.js throws on a value it cannot
\* bind is a string: it has no message, so the catch answers 'Failed to create
\* account'.
signup(postgres, tbl, email, password, name, id, clock, f) ==
    IF email = "" \/ password = ""
    THEN [users |-> tbl, resp |-> Response(400, "Email and password are required"),
          token |-> <<>>, log |-> Plain("none")]
    ELSE IF ~EmailRegexTest(email)
    THEN [users |-> tbl, resp |-> Response(400, "Please enter a valid email address"),
          token |-> <<>>, log |-> Plain("none")]
    ELSE IF PasswordLength(password) < 8
    THEN [users |-> tbl, resp |-> Response(400, "Password must be at least 8 characters"),
          token |-> <<>>, log |-> Plain("none")]
    ELSE LET ins == query(postgres, tbl,
                          Stmt("INSERT INTO users (id,email,password_hash,name)",
                               <<id, Normalize(email), BcryptHash(password), name>>), f)
         IN  IF ins.ok
             THEN [users |-> ins.users, resp |-> Response(201, "Account created successfully!"),
                   token |-> <<jwtSign(id, Normalize(email), JWT_SECRET, clock)>>,
                   log |-> Line("[Auth] User created", id, Absent, Absent)]
             ELSE IF ins.err = "duplicate key"
             THEN [users |-> ins.users,
                   resp |-> Response(409, "An account with this email already exists"),
                   token |-> <<>>, log |-> Plain("[Auth] Signup error")]
             ELSE IF ins.err = BindError
             THEN [users |-> ins.users, resp |-> Response(500, "Failed to create account"),
                   token |-> <<>>, log |-> Plain("[Auth] Signup error")]
             ELSE [users |-> ins.users, resp |-> Response(500, ins.err),
                   token |-> <<>>, log |-> Plain("[Auth] Signup error")]

\* ------------------------------------------------------------ profile updates
\* if (name) / if (email): undefined and the empty string count as not supplied
Supplied(v) == v # Absent /\ v # ""

\* An update that writes both columns whatever the call supplied
updateProfileBoth(postgres, tbl, userId, name, email) ==
    LET r == query(postgres, tbl,
                   Stmt("UPDATE users SET name=?,email=? WHERE id=?",
                        <<name, IF Supplied(email) THEN Normalize(email) ELSE email, userId>>),
                   "none")
    IN  [users |-> r.users, threw |-> ~r.ok]

\* User.updateProfile (db.js 646-673)
updateProfile(postgres, tbl, userId, name, email) ==
    IF ~Supplied(name) /\ ~Supplied(email) THEN [users |-> tbl, threw |-> FALSE]
    ELSE LET stmt ==
                 IF Supplied(name) /\ Supplied(email)
                 THEN Stmt("UPDATE users SET name=?,email=? WHERE id=?",
                           <<name, Normalize(email), userId>>)
                 ELSE IF Supplied(name)
                 THEN Stmt("UPDATE users SET name=? WHERE id=?", <<name, userId>>)
                 ELSE Stmt("UPDATE users SET email=? WHERE id=?",
                           <<Normalize(email), userId>>)
             r == query(postgres, tbl, stmt, "none")
         IN  [users |-> r.users, threw |-> ~r.ok]

\* ------------------------------------------------------------ login and sessions
\* User.verifyPassword (db.js 567-569): bcrypt.compare(plainPassword, passwordHash)
verifyPassword(plainPassword, passwordHash) == passwordHash = BcryptHash(plainPassword)

BadLogin == "Invalid email or password"

\* A login that says which of the two checks failed
loginTelling(postgres, tbl, email, password, clock) ==
    IF email = "" \/ password = ""
    THEN [users |-> tbl, resp |-> Response(400, "Email and password are required"),
          token |-> <<>>, log |-> Plain("none")]
    ELSE IF ~\E r \in tbl : r.email = Normalize(email)
    THEN [users |-> tbl, resp |-> Response(404, "No account with this email"),
          token |-> <<>>, log |-> Plain("none")]
    ELSE LET user == CHOOSE r \in tbl : r.email = Normalize(email) IN
         IF ~verifyPassword(password, user.password_hash)
         THEN [users |-> tbl, resp |-> Response(401, BadLogin), token |-> <<>>,
               log |-> Plain("none")]
         ELSE [users |-> query(postgres, tbl,
                               Stmt("UPDATE users SET last_login=? WHERE id=?",
                                    <<At(clock), user.id>>), "none").users,
               resp |-> Response(200, "success: true"),
               token |-> <<jwtSign(user.id, user.email, JWT_SECRET, clock)>>,
               log |-> Line("[Auth] User logged in", user.email, Absent, Absent)]

\* router.post('/login') (auth.js 128-186): User.findByEmail (db.js 548-550),
\* User.verifyPassword, User.updateLastLogin (db.js 602-605), jwt.sign
login(postgres, tbl, email, password, clock) ==
    IF email = "" \/ password = ""
    THEN [users |-> tbl, resp |-> Response(400, "Email and password are required"),
          token |-> <<>>, log |-> Plain("none")]
    ELSE IF ~\E r \in tbl : r.email = Normalize(email)
    THEN [users |-> tbl, resp |-> Response(401, BadLogin), token |-> <<>>,
          log |-> Plain("none")]
    ELSE LET user == CHOOSE r \in tbl : r.email = Normalize(email) IN
         IF ~verifyPassword(password, user.password_hash)
         THEN [users |-> tbl, resp |-> Response(401, BadLogin), token |-> <<>>,
               log |-> Plain("none")]
         ELSE [users |-> query(postgres, tbl,
                               Stmt("UPDATE users SET last_login=? WHERE id=?",
                                    <<At(clock), user.id>>), "none").users,
               resp |-> Response(200, "success: true"),
               token |-> <<jwtSign(user.id, user.email, JWT_SECRET, clock)>>,
               log |-> Line("[Auth] User logged in", user.email, Absent, Absent)]

\* The Authorization header: <<>> when the request has none or it carries no token
\* after the scheme, <<t>> for "Bearer t".
Rejected(status, body) == [ok |-> FALSE, resp |-> Response(status, body),
                           userId |-> Absent, userEmail |-> Absent]

\* A middleware that lets a signed credential pass whatever its age
authenticateTokenAnyAge(header, clock) ==
    IF header = <<>> THEN Rejected(401, "Access token required")
    ELSE LET v == jwtVerify(header[1], JWT_SECRET, 0) IN
         IF v.err # "" THEN Rejected(403, "Invalid or expired token")
         ELSE [ok |-> TRUE, resp |-> Response(0, "none"),
               userId |-> v.decoded.userId, userEmail |-> v.decoded.email]

\* A middleware that keeps a revocation list: a credential a logout was acknowledged
\* for is no longer accepted
authenticateTokenRevoking(header, clock) ==
    IF header = <<>> THEN Rejected(401, "Access token required")
    ELSE LET v == jwtVerify(header[1], JWT_SECRET, clock) IN
         IF v.err # "" \/ header[1] \in loggedOut
         THEN Rejected(403, "Invalid or expired token")
         ELSE [ok |-> TRUE, resp |-> Response(0, "none"),
               userId |-> v.decoded.userId, userEmail |-> v.decoded.email]

\* authenticateToken (auth.js 22-45)
authenticateToken(header, clock) ==
    IF header = <<>> THEN Rejected(401, "Access token required")
    ELSE LET v == jwtVerify(header[1], JWT_SECRET, clock) IN
         IF v.err # "" THEN Rejected(403, "Invalid or expired token")
         ELSE [ok |-> TRUE, resp |-> Response(0, "none"),
               userId |-> v.decoded.userId, userEmail |-> v.decoded.email]

\* A credential whose payload names another user, under the signature it had
Tampered(t, userId) == [t EXCEPT !.payload.userId = userId]

\* A credential signed with a key that is not the server's
Forged(t) == [t EXCEPT !.sig = Sign("forged", t.payload)]

\* ------------------------------------------------------------ webhook events
UserRefs == UserIds \cup {Absent}

Event(type, userId, customer, status) ==
    [type |-> type, userId |-> userId, customer |-> customer, status |-> status]

CheckoutEvents ==
    {Event("checkout.session.completed", u, c, Absent) : u \in UserRefs, c \in Customers}
SubscriptionEvents ==
    {Event(t, u, "cus_1", s) :
        t \in {"customer.subscription.created", "customer.subscription.updated"},
        u \in UserRefs, s \in Statuses}
DeletedEvents ==
    {Event("customer.subscription.deleted", u, c, "canceled") : u \in UserRefs, c \in Customers}
PaymentFailedEvents ==
    {Event("invoice.payment_failed", Absent, c, Absent) : c \in Customers}
OtherEvents == {Event("charge.succeeded", Absent, "cus_1", Absent),
                Event("customer.updated", "u1", "cus_1", "canceled")}

Events == CheckoutEvents \cup SubscriptionEvents \cup DeletedEvents
              \cup PaymentFailedEvents \cup OtherEvents

KnownTypes == {"checkout.session.completed", "customer.subscription.created",
               "customer.subscription.updated", "customer.subscription.deleted",
               "invoice.payment_failed"}

\* A verification that checks who signed and not what was signed
constructEventAnyBody(body, sig, secret) ==
    IF sig.key = secret THEN [ok |-> TRUE, event |-> body]
    ELSE [ok |-> FALSE, event |-> body]

\* stripe.webhooks.constructEvent(req.body, sig, webhookSecret) (stripe.js 198-203)
constructEvent(body, sig, secret) ==
    IF sig = Sign(secret, body) THEN [ok |-> TRUE, event |-> body]
    ELSE [ok |-> FALSE, event |-> body]

\* ------------------------------------------------------------ the reconciler
\* What a handler has done when its promise resolves: the statements it passed to
\* db.get / db.run without awaiting them, in order, its last console line, and whether
\* it threw.
Done(issued, line) == [issued |-> issued, log |-> line, threw |-> FALSE]

\* db.get is an async function: the caller that does not await it holds a Promise.
PromiseOf(stmt) == [kind |-> "promise", id |-> Absent, email |-> Absent]
Truthy(v) == v.kind # "undefined"

handleCheckoutComplete(session) ==
    IF session.userId # Absent
    THEN Done(<<Stmt("UPDATE users SET tier=pro,status=active,customer=? WHERE id=?",
                     <<session.customer, session.userId>>)>>,
              Line("[Stripe] User upgraded to Pro", session.userId, "pro", "active"))
    ELSE Done(<<>>, Plain("[Stripe] No userId in session metadata"))

\* A tier rule that downgrades on cancellation only
TierOfUnlessCanceled(status) == IF status = "canceled" THEN "free" ELSE "pro"

\* stripe.js 286
TierOf(status) == IF status = "active" \/ status = "trialing" THEN "pro" ELSE "free"

\* An update handler that insists on the user reference
handleSubscriptionUpdateStrict(subscription) ==
    IF subscription.userId = Absent
    THEN [issued |-> <<>>, log |-> Plain("[Stripe] No userId in subscription metadata"),
          threw |-> TRUE]
    ELSE LET tier == TierOf(subscription.status) IN
         Done(<<Stmt("UPDATE users SET tier=?,status=? WHERE id=?",
                     <<tier, subscription.status, subscription.userId>>)>>,
              Line("[Stripe] Subscription updated", subscription.userId, tier,
                   subscription.status))

handleSubscriptionUpdate(subscription) ==
    LET userId == subscription.userId
        status == subscription.status
        tier == TierOf(status)
        subStatus == IF status = "active" THEN "active" ELSE status
    IN  IF userId = Absent
        THEN Done(<<>>, Plain("[Stripe] No userId in subscription metadata"))
        ELSE Done(<<Stmt("UPDATE users SET tier=?,status=? WHERE id=?",
                         <<tier, subStatus, userId>>)>>,
                  Line("[Stripe] Subscription updated", userId, tier, subStatus))

handleSubscriptionCanceled(subscription) ==
    LET userId == subscription.userId IN
    IF userId = Absent
    THEN LET sel == Stmt("SELECT id FROM users WHERE stripe_customer_id=?",
                         <<subscription.customer>>)
             user == PromiseOf(sel)
         IN  IF Truthy(user)
             THEN Done(<<sel, Stmt("UPDATE users SET tier=free,status=canceled WHERE id=?",
                                   <<user.id>>)>>,
                       Line("[Stripe] Subscription canceled", user.id, "free", "canceled"))
             ELSE Done(<<sel>>, Plain("[Stripe Webhook] Received event"))
    ELSE Done(<<Stmt("UPDATE users SET tier=free,status=canceled WHERE id=?", <<userId>>)>>,
              Line("[Stripe] Subscription canceled", userId, "free", "canceled"))

\* A handler that treats a failed payment as a cancellation
handlePaymentFailedAsCanceled(invoice) == handleSubscriptionCanceled(invoice)

handlePaymentFailed(invoice) ==
    LET sel == Stmt("SELECT id, email FROM users WHERE stripe_customer_id=?",
                    <<invoice.customer>>)
        user == PromiseOf(sel)
    IN  IF Truthy(user)
        THEN Done(<<sel>>, Line("[Stripe] Payment failed", user.email, Absent, Absent))
        ELSE Done(<<sel>>, Plain("[Stripe Webhook] Received event"))

\* A switch whose default falls into the cancellation case
DispatchFallThrough(event) ==
    CASE event.type = "checkout.session.completed" -> handleCheckoutComplete(event)
      [] event.type \in {"customer.subscription.created", "customer.subscription.updated"} ->
            handleSubscriptionUpdate(event)
      [] event.type = "invoice.payment_failed" -> handlePaymentFailed(event)
      [] OTHER -> handleSubscriptionCanceled(event)

\* the switch of handleWebhook (stripe.js 208-236)
Dispatch(event) ==
    CASE event.type = "checkout.session.completed" -> handleCheckoutComplete(event)
      [] event.type \in {"customer.subscription.created", "customer.subscription.updated"} ->
            handleSubscriptionUpdate(event)
      [] event.type = "customer.subscription.deleted" -> handleSubscriptionCanceled(event)
      [] event.type = "invoice.payment_failed" -> handlePaymentFailed(event)
      [] OTHER -> Done(<<>>, Plain("[Stripe Webhook] Unhandled event type"))

\* handleWebhook (stripe.js 192-244): the response, the last console line and the
\* statements handed to the store
handleWebhook(body, sig) ==
    LET c == constructEvent(body, sig, WebhookSecret) IN
    IF ~c.ok
    THEN [resp |-> Response(400, "Webhook Error"), issued |-> <<>>,
          log |-> Plain("[Stripe Webhook] Signature verification failed")]
    ELSE LET h == Dispatch(c.event) IN
         IF h.threw
         THEN [resp |-> Response(500, "Webhook handler failed"), issued |-> h.issued,
               log |-> Plain("[Stripe Webhook] Handler error")]
         ELSE [resp |-> Response(200, "received: true"), issued |-> h.issued, log |-> h.log]

\* ------------------------------------------------------------ requests
Faults == {"none", "stmt"}

\* A request carries a signature over the delivered body, one over a different body,
\* or one made with another secret.
\* fault = "stmt": the store fails the statements this request issues.
OtherBody(body) ==
    IF body.type = "charge.succeeded"
    THEN Event("invoice.payment_failed", Absent, "cus_1", Absent)
    ELSE Event("charge.succeeded", Absent, "cus_1", Absent)

WebhookRequests ==
    {[body |-> e, sig |-> Sign(WebhookSecret, e), fault |-> "none"] : e \in Events}
        \cup {[body |-> e, sig |-> Sign(WebhookSecret, e), fault |-> "stmt"] :
                  e \in CheckoutEvents \cup SubscriptionEvents \cup DeletedEvents}
        \cup {[body |-> e, sig |-> Sign(WebhookSecret, OtherBody(e)), fault |-> "none"] :
                  e \in {Event("checkout.session.completed", "u1", "cus_1", Absent),
                         Event("customer.subscription.deleted", "u1", "cus_1", "canceled"),
                         Event("customer.subscription.deleted", Absent, "cus_1", "canceled"),
                         Event("customer.updated", "u1", "cus_1", "canceled")}}
        \cup {[body |-> e, sig |-> Sign("forged", e), fault |-> "none"] :
                  e \in {Event("checkout.session.completed", "u1", "cus_1", Absent)}}

\* Signups: the well-formed ones, with every id and with a failing store, and one
\* request for each validation the route makes
SignupRequests ==
    {[email |-> e, password |-> "longenough1", name |-> "Ann", id |-> i, fault |-> f] :
        e \in {"a@b.com", "A@B.com", "c@d.com"}, i \in UserIds, f \in Faults}
        \cup {[email |-> e, password |-> p, name |-> "Ann", id |-> "u1", fault |-> "none"] :
                  e \in RawEmails, p \in Passwords}

ValidRequest(e) == [body |-> e, sig |-> Sign(WebhookSecret, e), fault |-> "none"]

\* The statements of a request as the store settles them one after the other
RECURSIVE SettleAll(_, _, _, _)
SettleAll(postgres, tbl, stmts, f) ==
    IF stmts = <<>> THEN [users |-> tbl, rejected |-> FALSE]
    ELSE LET r == run(postgres, tbl, Head(stmts), f)
             rest == SettleAll(postgres, r.users, Tail(stmts), f)
         IN  [users |-> rest.users, rejected |-> ~r.ok \/ rest.rejected]

\* Networked backend: the statements of a request on their way to the server
RECURSIVE Sent(_)
Sent(stmts) ==
    IF stmts = <<>> THEN EmptyBag
    ELSE SetToBag({Head(stmts)}) (+) Sent(Tail(stmts))

\* A promise that rejects with nobody awaiting it is an unhandled rejection: Node
\* warns and goes on, or (15 and later, by default) ends the process.
AfterRejection(rejected) == IF up /\ rejected THEN BOOLEAN ELSE {up}

NoDup == [phase |-> "off", event |-> Event("charge.succeeded", Absent, "cus_1", Absent),
          single |-> {}, sequential |-> FALSE, afterFirst |-> {}]

\* Nothing answered yet.  used: the secrets reset-password has found stored and
\* unexpired; raced: those of them it has answered while another request presenting
\* the same secret was awaiting the store; ok[k]: the 200 answers to Secrets[k];
\* upd[k]: the password updates made for Secrets[k].
NoHist == [used |-> {}, raced |-> {},
           ok |-> [k \in DOMAIN Secrets |-> 0], upd |-> [k \in DOMAIN Secrets |-> 0]]

\* startServer between its awaits.  initialised: initDatabase returned a handle;
\* tested: the statement of the connection test was answered; tables: the users
\* table exists in the selected backend.
Boot(phase, initialised, tested, tables) ==
    [phase |-> phase, initialised |-> initialised, tested |-> tested, tables |-> tables]

\* The server after app.listen on a set-up database
Listening == Boot("listening", TRUE, TRUE, TRUE)

\* The database as sql.js holds it in memory and exports it: whether the tables
\* exist, and the rows of the two tables
Image(tables, utbl, ttbl) == [tables |-> tables, users |-> utbl, tokens |-> ttbl]

CurrentImage == Image(boot.tables, users, tokens)

\* A saveSqlite that writes nothing
saveSqliteNever(postgres, handle, disk, image) == disk

\* saveSqlite (db.js 95-100): nothing without a handle or on the networked backend,
\* otherwise the exported image replaces the file
saveSqlite(postgres, handle, disk, image) ==
    IF ~handle \/ postgres THEN disk ELSE image

\* The routes reach the store through run and query only (db.js 106-115, 465-468):
\* on the embedded backend a step that changes the image has run its statement and
\* then saveSqlite
Persisted ==
    file' = IF CurrentImage' # CurrentImage
            THEN saveSqlite(USE_POSTGRES, boot.initialised, file, CurrentImage')
            ELSE file

\* A promise of the db functions once settled: resolved with rows (none for run and
\* exec), or rejected
Resolved(rows) == [ok |-> TRUE, rows |-> rows]
Failed == [ok |-> FALSE, rows |-> {}]

\* ------------------------------------------------------------ actions
\* The state the routes start from: nothing stored, nothing on its way
Fresh ==
    /\ USE_POSTGRES \in BOOLEAN
    /\ users = {}
    /\ inflight = EmptyBag
    /\ resp = Response(0, "none")
    /\ log = Plain("none")
    /\ fault = "none"
    /\ up = TRUE
    /\ dup = NoDup
    /\ tokens = {}
    /\ now = 0
    /\ generated = <<>>
    /\ pending = EmptyBag
    /\ hist = NoHist
    /\ cred = <<>>
    /\ held = {}
    /\ loggedOut = {}
    /\ signing = EmptyBag
    /\ customers = <<>>
    /\ sessions = {}
    /\ checkouts = EmptyBag
    /\ answer = Resolved({})
    /\ converted = [done |-> FALSE, text |-> <<>>]

Init ==
    /\ Fresh
    /\ boot = Listening
    /\ reachable = TRUE
    /\ file = CurrentImage
    /\ written = <<>>

\* POST /api/auth/signup
Signup(rq) ==
    /\ up
    /\ LET out == signup(USE_POSTGRES, users, rq.email, rq.password, rq.name, rq.id,
                         now, rq.fault) IN
       \* randomUUID never repeats: id is fresh whenever the INSERT could use it
       /\ HasRow(users, rq.id) =>
             out.resp.status = 400 \/ \E r \in users : r.email = Normalize(rq.email)
       /\ users' = out.users
       /\ resp' = out.resp
       /\ log' = out.log
       /\ cred' = out.token
       /\ fault' = IF out.resp.status = 400 THEN "none" ELSE rq.fault
    /\ UNCHANGED bootVars
    /\ UNCHANGED <<USE_POSTGRES, inflight, up, dup>>
    /\ UNCHANGED resetVars
    /\ UNCHANGED sessionVars
    /\ UNCHANGED flowVars
    /\ Persisted
    /\ UNCHANGED callVars

\* POST /api/stripe/webhook, from the request to the response.  The handlers await
\* nothing that is pending, so no other request runs in between.  On the embedded
\* backend the statements have run when db.run / db.get return; on the networked
\* backend they are on their way to the server when the response is sent.
Webhook(r) ==
    /\ up
    /\ USE_POSTGRES => r.fault = "none"
    /\ LET h == handleWebhook(r.body, r.sig) IN
       /\ resp' = h.resp
       /\ cred' = <<>>
       /\ log' = h.log
       /\ IF USE_POSTGRES
          THEN /\ fault' = "none"
               /\ inflight' = inflight (+) Sent(h.issued)
               /\ UNCHANGED <<users, up>>
          ELSE LET s == SettleAll(FALSE, users, h.issued, r.fault) IN
               /\ users' = s.users
               /\ fault' = IF h.issued = <<>> THEN "none" ELSE r.fault
               /\ up' \in AfterRejection(s.rejected)
               /\ UNCHANGED inflight
    /\ UNCHANGED bootVars
    /\ UNCHANGED USE_POSTGRES
    /\ UNCHANGED resetVars
    /\ UNCHANGED sessionVars
    /\ UNCHANGED flowVars
    /\ Persisted
    /\ UNCHANGED callVars

Deliver(r) ==
    /\ Webhook(r)
    /\ BagCardinality(inflight') <= MaxInflight
    /\ UNCHANGED dup

\* Networked backend: the server settles a query that was sent without being awaited
PgSettle(q) ==
    /\ USE_POSTGRES
    /\ BagIn(q, inflight)
    /\ LET r == PgQuery(users, q, "none") IN
       /\ users' = r.users
       /\ up' \in AfterRejection(~r.ok)
    /\ inflight' = inflight (-) SetToBag({q})
    /\ UNCHANGED bootVars
    /\ UNCHANGED <<USE_POSTGRES, resp, log, fault, dup, cred>>
    /\ UNCHANGED resetVars
    /\ UNCHANGED sessionVars
    /\ UNCHANGED flowVars
    /\ Persisted
    /\ UNCHANGED callVars

Next ==
    \/ \E rq \in SignupRequests : Signup(rq)
    \/ \E r \in WebhookRequests : Deliver(r)
    \/ \E q \in BagToSet(inflight) : PgSettle(q)

Spec == Init /\ [][Next]_vars

\* ------------------------------------------------------------ duplicate deliveries
\* The same verified event delivered twice, with no other request in between.  The
\* first delivery starts from a settled store; the second may arrive while the
\* statements of the first are still in flight.  dup.single is the table a single
\* delivery ends in; dup.afterFirst is the table the second delivery found when the
\* first had settled (dup.sequential).
FirstDelivery(e) ==
    /\ dup.phase = "off"
    /\ inflight = EmptyBag
    /\ Webhook(ValidRequest(e))
    /\ dup' = [phase |-> "one", event |-> e,
               single |-> SettleAll(USE_POSTGRES, users,
                                    handleWebhook(e, Sign(WebhookSecret, e)).issued, "none").users,
               sequential |-> FALSE, afterFirst |-> {}]

SecondDelivery ==
    /\ dup.phase = "one"
    /\ Webhook(ValidRequest(dup.event))
    /\ dup' = [dup EXCEPT !.phase = "two",
                          !.sequential = (inflight = EmptyBag),
                          !.afterFirst = IF inflight = EmptyBag THEN users ELSE {}]

NextDup ==
    \/ /\ dup.phase = "off"
       /\ \E rq \in SignupRequests : Signup(rq)
    \/ /\ dup.phase = "off"
       /\ \E r \in WebhookRequests : Deliver(r)
    \/ \E e \in Events : FirstDelivery(e)
    \/ SecondDelivery
    \/ \E q \in BagToSet(inflight) : PgSettle(q)

SpecDup == Init /\ [][NextDup]_vars

\* ------------------------------------------------------------ reset tokens
\* crypto.createHash('sha256').update(token).digest('hex')
Sha256(token) == <<"sha256", token>>

\* Secrets[k] as a caller presents it
SecretIndex(token) == CHOOSE k \in DOMAIN Secrets : Secrets[k] = token
IsSecret(token) == \E k \in DOMAIN Secrets : Secrets[k] = token

\* INSERT INTO password_reset_tokens ... without the ON CONFLICT clause, on a table
\* that does not enforce its key
InsertToken(tbl, userId, tokenHash, expiresAt) ==
    tbl \cup {[user_id |-> userId, token_hash |-> tokenHash, expires_at |-> expiresAt]}

\* INSERT INTO password_reset_tokens (user_id, token_hash, expires_at) VALUES (?, ?, ?)
\* ON CONFLICT (user_id) DO UPDATE SET token_hash = ?, expires_at = ?
\* (passwordReset.js 52-57; user_id is the PRIMARY KEY, db.js 317-318 and 424-425)
UpsertToken(tbl, userId, tokenHash, expiresAt) ==
    {r \in tbl : r.user_id # userId}
        \cup {[user_id |-> userId, token_hash |-> tokenHash, expires_at |-> expiresAt]}

\* SELECT user_id, expires_at FROM password_reset_tokens WHERE token_hash = ?
\* through db.getOne: the first matching row, or undefined
NoRecord == [user_id |-> Absent, expires_at |-> 0]
SelectByTokenHash(tbl, tokenHash) ==
    IF \E r \in tbl : r.token_hash = tokenHash
    THEN LET r == CHOOSE r \in tbl : r.token_hash = tokenHash
         IN  [user_id |-> r.user_id, expires_at |-> r.expires_at]
    ELSE NoRecord

\* A DELETE that removes nothing
KeepTokens(tbl, tokenHash) == tbl

\* DELETE FROM password_reset_tokens WHERE token_hash = ?
DeleteByTokenHash(tbl, tokenHash) == {r \in tbl : r.token_hash # tokenHash}

\* DELETE FROM password_reset_tokens WHERE user_id = ?
DeleteByUserId(tbl, userId) == {r \in tbl : r.user_id # userId}

\* new Date(resetRecord.expires_at) < new Date()
Expired(expiresAt, clock) == expiresAt < clock

\* User.findByEmail (db.js 548-550)
findByEmail(tbl, email) ==
    IF \E r \in tbl : r.email = Normalize(email)
    THEN (CHOOSE r \in tbl : r.email = Normalize(email)).id
    ELSE Absent

\* A User model whose method updates every row: UPDATE users SET password_hash = ?
updatePasswordEveryone(tbl, userId, password) ==
    [threw |-> FALSE,
     users |-> {[r EXCEPT !.password_hash = BcryptHash(password)] : r \in tbl}]

\* A User model that has the method: UPDATE users SET password_hash = ? WHERE id = ?
updatePasswordDefined(tbl, userId, password) ==
    [threw |-> FALSE,
     users |-> {IF r.id = userId THEN [r EXCEPT !.password_hash = BcryptHash(password)]
                ELSE r : r \in tbl}]

\* User.updatePassword(resetRecord.user_id, password) (passwordReset.js 135): class
\* User (db.js 515-681) has no updatePassword, so the call throws
\* "User.updatePassword is not a function" and no statement is issued.
updatePassword(tbl, userId, password) == [threw |-> TRUE, users |-> tbl]

\* ------------------------------------------------------------ password reset routes
ResetLinkSent == "If an account exists with this email, you will receive a password reset link."

\* router.post('/forgot-password') up to the answer of User.findByEmail
\* (passwordReset.js 21-44)
\* A lookup that tells the caller when the email is unknown
forgotLookupTelling(tbl, email) ==
    IF email = ""
    THEN [done |-> TRUE, user |-> Absent, resp |-> Response(400, "Email is required"),
          log |-> Plain("none")]
    ELSE LET user == findByEmail(tbl, email) IN
         IF user = Absent
         THEN [done |-> TRUE, user |-> Absent,
               resp |-> Response(404, "No account with this email"),
               log |-> Plain("[Password Reset] User not found")]
         ELSE [done |-> FALSE, user |-> user, resp |-> Response(200, ResetLinkSent),
               log |-> Plain("[Password Reset] Request for")]

forgotLookup(tbl, email) ==
    IF email = ""
    THEN [done |-> TRUE, user |-> Absent, resp |-> Response(400, "Email is required"),
          log |-> Plain("none")]
    ELSE LET user == findByEmail(tbl, email) IN
         IF user = Absent
         THEN [done |-> TRUE, user |-> Absent, resp |-> Response(200, ResetLinkSent),
               log |-> Plain("[Password Reset] User not found")]
         ELSE [done |-> FALSE, user |-> user, resp |-> Response(200, ResetLinkSent),
               log |-> Plain("[Password Reset] Request for")]

\* router.post('/forgot-password') from the generation of the secret to the response
\* (passwordReset.js 46-69).  sendPasswordResetEmail catches its own errors.
forgotStore(tbl, gen, clock, userId) ==
    LET resetToken == Secrets[Len(gen) + 1]
        tokenHash == Sha256(resetToken)
        expiresAt == clock + TokenTtl
    IN  [tokens |-> UpsertToken(tbl, userId, tokenHash, expiresAt),
         generated |-> Append(gen, [user |-> userId, at |-> clock]),
         resp |-> Response(200, ResetLinkSent),
         log |-> Line("[Email] Sending password reset email", userId, Absent, Absent)]

\* A validation that lets a short password through
resetValidateAnyLength(token, password) ==
    IF token = "" \/ password = ""
    THEN [ok |-> FALSE, resp |-> Response(400, "Token and new password are required")]
    ELSE [ok |-> TRUE, resp |-> Response(0, "none")]

\* router.post('/reset-password'), input validation (passwordReset.js 86-100)
resetValidate(token, password) ==
    IF token = "" \/ password = ""
    THEN [ok |-> FALSE, resp |-> Response(400, "Token and new password are required")]
    ELSE IF PasswordLength(password) < 8
    THEN [ok |-> FALSE, resp |-> Response(400, "Password must be at least 8 characters")]
    ELSE [ok |-> TRUE, resp |-> Response(0, "none")]

\* A handler that removes the token row before it updates the password
resetFinishDeleteFirst(utbl, ttbl, clock, rec, token, password) ==
    IF rec.user_id = Absent
    THEN [users |-> utbl, tokens |-> ttbl, valid |-> FALSE, updated |-> FALSE,
          resp |-> Response(400, "Invalid or expired reset token"),
          log |-> Plain("[Password Reset] Invalid token")]
    ELSE IF Expired(rec.expires_at, clock)
    THEN [users |-> utbl, tokens |-> DeleteByTokenHash(ttbl, Sha256(token)),
          valid |-> FALSE, updated |-> FALSE,
          resp |-> Response(400, "Reset token has expired. Please request a new one."),
          log |-> Plain("[Password Reset] Expired token")]
    ELSE [users |-> utbl, tokens |-> DeleteByUserId(ttbl, rec.user_id),
          valid |-> TRUE, updated |-> FALSE,
          resp |-> Response(500, "Failed to reset password"),
          log |-> Plain("[Password Reset] Error")]

\* router.post('/reset-password') from the answer of the SELECT to the response
\* (passwordReset.js 112-155).  valid: the record was found and had not expired;
\* updated: the password update was made.
resetFinish(utbl, ttbl, clock, rec, token, password) ==
    IF rec.user_id = Absent
    THEN [users |-> utbl, tokens |-> ttbl, valid |-> FALSE, updated |-> FALSE,
          resp |-> Response(400, "Invalid or expired reset token"),
          log |-> Plain("[Password Reset] Invalid token")]
    ELSE IF Expired(rec.expires_at, clock)
    THEN [users |-> utbl, tokens |-> DeleteByTokenHash(ttbl, Sha256(token)),
          valid |-> FALSE, updated |-> FALSE,
          resp |-> Response(400, "Reset token has expired. Please request a new one."),
          log |-> Plain("[Password Reset] Expired token")]
    ELSE LET u == updatePassword(utbl, rec.user_id, password) IN
         IF u.threw
         THEN [users |-> u.users, tokens |-> ttbl, valid |-> TRUE, updated |-> FALSE,
               resp |-> Response(500, "Failed to reset password"),
               log |-> Plain("[Password Reset] Error")]
         ELSE [users |-> u.users, tokens |-> DeleteByUserId(ttbl, rec.user_id),
               valid |-> TRUE, updated |-> TRUE,
               resp |-> Response(200, "Password has been reset successfully. You can now log in with your new password."),
               log |-> Line("[Password Reset] Password updated for user", rec.user_id,
                            Absent, Absent)]

\* router.post('/reset-password') run from the request to the response
resetPassword(utbl, ttbl, clock, token, password) ==
    LET v == resetValidate(token, password) IN
    IF ~v.ok
    THEN [users |-> utbl, tokens |-> ttbl, valid |-> FALSE, updated |-> FALSE,
          resp |-> v.resp, log |-> Plain("none")]
    ELSE resetFinish(utbl, ttbl, clock, SelectByTokenHash(ttbl, Sha256(token)),
                     token, password)

\* router.post('/forgot-password') run from the request to the response
forgotPassword(utbl, ttbl, gen, clock, email) ==
    LET f == forgotLookup(utbl, email) IN
    IF f.done
    THEN [tokens |-> ttbl, generated |-> gen, resp |-> f.resp, log |-> f.log]
    ELSE forgotStore(ttbl, gen, clock, f.user)

\* A probe that does not look at the expiry
verifyResetTokenAnyAge(ttbl, clock, token) ==
    IF token = "" THEN Response(400, "Token is required")
    ELSE IF SelectByTokenHash(ttbl, Sha256(token)).user_id = Absent
    THEN Response(200, "valid: false")
    ELSE Response(200, "valid: true")

\* router.get('/verify-reset-token') (passwordReset.js 162-201)
verifyResetToken(ttbl, clock, token) ==
    IF token = "" THEN Response(400, "Token is required")
    ELSE LET rec == SelectByTokenHash(ttbl, Sha256(token)) IN
         IF rec.user_id = Absent \/ Expired(rec.expires_at, clock)
         THEN Response(200, "valid: false")
         ELSE Response(200, "valid: true")

\* A reset-password request that awaits the store, with the record its SELECT returned
Awaiting(token, password, rec) == [token |-> token, password |-> password, rec |-> rec]

\* what reset-password has answered, after one more answer
Answered(h, token, out, others) ==
    IF ~out.valid THEN h
    ELSE LET k == SecretIndex(token) IN
         [used |-> h.used \cup {token},
          raced |-> IF \E q \in BagToSet(others) : q.token = token
                    THEN h.raced \cup {token} ELSE h.raced,
          ok |-> [h.ok EXCEPT ![k] = @ + (IF out.resp.status = 200 THEN 1 ELSE 0)],
          upd |-> [h.upd EXCEPT ![k] = @ + (IF out.updated THEN 1 ELSE 0)]]

\* POST /api/auth/forgot-password.  The handler awaits the lookup and then the upsert.
\* No route removes a user or changes an email, so the user the lookup found is the
\* user the upsert is for whenever it executes: the request is one step at the
\* moment the store executes the upsert.
ForgotPassword(email) ==
    /\ up
    /\ forgotLookup(users, email).done \/ Len(generated) < Len(Secrets)
    /\ LET out == forgotPassword(users, tokens, generated, now, email) IN
       /\ tokens' = out.tokens
       /\ generated' = out.generated
       /\ resp' = out.resp
       /\ log' = out.log
    /\ cred' = <<>>
    /\ fault' = "none"
    /\ UNCHANGED bootVars
    /\ UNCHANGED <<USE_POSTGRES, users, inflight, up, dup, now, pending, hist>>
    /\ UNCHANGED sessionVars
    /\ UNCHANGED flowVars
    /\ Persisted
    /\ UNCHANGED callVars

\* POST /api/auth/reset-password.  The token presented is a secret that was generated,
\* or one that never was.  On the embedded backend the handler runs to its response
\* without yielding; on the networked backend it goes on in a later step, after the
\* SELECT was answered (a SELECT that finds nothing leads to no further statement).
ResetPassword(token, password) ==
    /\ up
    /\ IsSecret(token) => SecretIndex(token) <= Len(generated)
    /\ LET v == resetValidate(token, password)
           rec == SelectByTokenHash(tokens, Sha256(token))
       IN  IF ~v.ok
           THEN /\ resp' = v.resp
                /\ cred' = <<>>
                /\ UNCHANGED <<users, tokens, pending, hist, log>>
           ELSE IF USE_POSTGRES /\ rec.user_id # Absent
           THEN /\ BagCardinality(pending) < MaxPending
                /\ pending' = pending (+) SetToBag({Awaiting(token, password, rec)})
                /\ UNCHANGED <<users, tokens, hist, resp, log, cred>>
           ELSE LET out == resetFinish(users, tokens, now, rec, token, password) IN
                /\ users' = out.users
                /\ tokens' = out.tokens
                /\ resp' = out.resp
                /\ cred' = <<>>
                /\ log' = out.log
                /\ hist' = Answered(hist, token, out, pending)
                /\ UNCHANGED pending
    /\ fault' = "none"
    /\ UNCHANGED bootVars
    /\ UNCHANGED <<USE_POSTGRES, inflight, up, dup, now, generated>>
    /\ UNCHANGED sessionVars
    /\ UNCHANGED flowVars
    /\ Persisted
    /\ UNCHANGED callVars

\* networked backend: reset-password goes on after the SELECT was answered
ResetFinish(p) ==
    /\ up
    /\ BagIn(p, pending)
    /\ LET out == resetFinish(users, tokens, now, p.rec, p.token, p.password) IN
       /\ users' = out.users
       /\ tokens' = out.tokens
       /\ resp' = out.resp
       /\ log' = out.log
       /\ hist' = Answered(hist, p.token, out, pending (-) SetToBag({p}))
    /\ pending' = pending (-) SetToBag({p})
    /\ cred' = <<>>
    /\ fault' = "none"
    /\ UNCHANGED bootVars
    /\ UNCHANGED <<USE_POSTGRES, inflight, up, dup, now, generated>>
    /\ UNCHANGED sessionVars
    /\ UNCHANGED flowVars
    /\ Persisted
    /\ UNCHANGED callVars

\* GET /api/auth/verify-reset-token
VerifyResetToken(token) ==
    /\ up
    /\ IsSecret(token) => SecretIndex(token) <= Len(generated)
    /\ resp' = verifyResetToken(tokens, now, token)
    /\ cred' = <<>>
    /\ UNCHANGED bootVars
    /\ UNCHANGED <<USE_POSTGRES, users, inflight, log, fault, up, dup,
                   tokens, now, generated, pending, hist>>
    /\ UNCHANGED sessionVars
    /\ UNCHANGED flowVars
    /\ Persisted
    /\ UNCHANGED callVars

\* an hour passes
Tick ==
    /\ now < MaxClock
    /\ now' = now + 1
    /\ UNCHANGED bootVars
    /\ UNCHANGED <<USE_POSTGRES, users, inflight, resp, log, fault, up, dup,
                   tokens, generated, pending, hist, cred>>
    /\ UNCHANGED sessionVars
    /\ UNCHANGED flowVars
    /\ Persisted
    /\ UNCHANGED callVars

\* The accounts next to which the reset routes run
ResetSignups ==
    {[email |-> "a@b.com", password |-> "longenough1", name |-> "Ann", id |-> "u1",
      fault |-> "none"],
     [email |-> "c@d.com", password |-> "longenough1", name |-> "Ann", id |-> "u2",
      fault |-> "none"]}

NextReset ==
    \/ \E rq \in ResetSignups : Signup(rq)
    \/ \E e \in RawEmails : ForgotPassword(e)
    \/ \E t \in PresentedTokens, pw \in ResetPasswords : ResetPassword(t, pw)
    \/ \E p \in BagToSet(pending) : ResetFinish(p)
    \/ \E t \in PresentedTokens : VerifyResetToken(t)
    \/ Tick

SpecReset == Init /\ [][NextReset]_vars

\* ------------------------------------------------------------ credential routes
\* POST /api/auth/login.  The handler awaits the lookup, the comparison and the
\* UPDATE of last_login.  No route changes an email or a password hash or removes a
\* user, so the row the lookup found is the row the UPDATE is for whenever it
\* executes: the request is one step at the moment the store executes the UPDATE.
Login(email, password) ==
    /\ up
    /\ LET out == login(USE_POSTGRES, users, email, password, now) IN
       /\ users' = out.users
       /\ resp' = out.resp
       /\ cred' = out.token
       /\ log' = out.log
    /\ fault' = "none"
    /\ UNCHANGED bootVars
    /\ UNCHANGED <<USE_POSTGRES, inflight, up, dup>>
    /\ UNCHANGED resetVars
    /\ UNCHANGED sessionVars
    /\ UNCHANGED flowVars
    /\ Persisted
    /\ UNCHANGED callVars

\* The client that got a credential keeps it, in place of the one it had for that user
Keep ==
    /\ cred # <<>>
    /\ cred[1] \notin held
    /\ held' = {c \in held : c.payload.userId # cred[1].payload.userId} \cup {cred[1]}
    /\ loggedOut' = loggedOut \cap held'
    /\ UNCHANGED bootVars
    /\ UNCHANGED <<USE_POSTGRES, users, inflight, resp, log, fault, up, dup, cred>>
    /\ UNCHANGED resetVars
    /\ UNCHANGED flowVars
    /\ Persisted
    /\ UNCHANGED callVars

\* What a caller may send as Authorization header: nothing, a string that is no JWT,
\* a credential a client holds, or one made from it
Headers ==
    {<<>>, <<Garbage>>}
        \cup {<<c>> : c \in held}
        \cup {<<Forged(c)>> : c \in held}
        \cup {<<Tampered(c, u)>> : c \in held, u \in UserIds}

\* GET /api/auth/me (auth.js 192-223): the projection of the user the credential
\* names, the body named by the email in it
Me(header) ==
    /\ up
    /\ LET a == authenticateToken(header, now) IN
       resp' = IF ~a.ok THEN a.resp
               ELSE IF ~HasRow(users, a.userId) THEN Response(404, "User not found")
               ELSE Response(200, RowOf(users, a.userId).email)
    /\ cred' = <<>>
    /\ UNCHANGED bootVars
    /\ UNCHANGED <<USE_POSTGRES, users, inflight, log, fault, up, dup>>
    /\ UNCHANGED resetVars
    /\ UNCHANGED sessionVars
    /\ UNCHANGED flowVars
    /\ Persisted
    /\ UNCHANGED callVars

\* POST /api/auth/logout (auth.js 229-236)
Logout(header) ==
    /\ up
    /\ LET a == authenticateToken(header, now) IN
       IF ~a.ok
       THEN /\ resp' = a.resp
            /\ UNCHANGED <<log, loggedOut>>
       ELSE /\ resp' = Response(200, "Logged out successfully")
            /\ log' = Line("[Auth] User logged out", a.userEmail, Absent, Absent)
            /\ loggedOut' = loggedOut \cup ({header[1]} \cap held)
    /\ cred' = <<>>
    /\ UNCHANGED bootVars
    /\ UNCHANGED <<USE_POSTGRES, users, inflight, fault, up, dup, held>>
    /\ UNCHANGED resetVars
    /\ UNCHANGED flowVars
    /\ Persisted
    /\ UNCHANGED callVars

\* time passes up to the end of the first week, when the credentials of hour 0 expire
Week ==
    /\ now < JWT_EXPIRATION
    /\ now' = JWT_EXPIRATION
    /\ UNCHANGED bootVars
    /\ UNCHANGED <<USE_POSTGRES, users, inflight, resp, log, fault, up, dup,
                   tokens, generated, pending, hist, cred>>
    /\ UNCHANGED sessionVars
    /\ UNCHANGED flowVars
    /\ Persisted
    /\ UNCHANGED callVars

\* Signups next to which the credential routes run: with and without a name, an
\* email in another letter case, and an email that may be taken
AuthSignups ==
    {[email |-> "a@b.com", password |-> "longenough1", name |-> "Ann", id |-> "u1",
      fault |-> "none"],
     [email |-> "A@B.com", password |-> "longenough1", name |-> Absent, id |-> "u2",
      fault |-> "none"],
     [email |-> "c@d.com", password |-> "longenough1", name |-> "Bob", id |-> "u2",
      fault |-> "none"]}

\* Logins: the right password in either letter case, a wrong password, an email
\* nobody has, and a missing field
LoginRequests ==
    {[email |-> e, password |-> "longenough1"] :
        e \in {"a@b.com", "A@B.com", "c@d.com", "not-an-email", ""}}
        \cup {[email |-> "a@b.com", password |-> "short"]}

NextAuth ==
    \/ \E rq \in AuthSignups : Signup(rq)
    \/ \E rq \in LoginRequests : Login(rq.email, rq.password)
    \/ Keep
    \/ \E h \in Headers : Me(h)
    \/ \E h \in Headers : Logout(h)
    \/ Tick
    \/ Week

SpecAuth == Init /\ [][NextAuth]_vars

\* ------------------------------------------------------------ the user record store
\* POST /api/auth/signup up to await bcrypt.hash (auth.js 55-83, db.js 521): a request
\* the validation rejects is answered at once; any other awaits the hash, and other
\* requests run before it goes on.
SignupBegin(rq) ==
    /\ up
    /\ LET out == signup(USE_POSTGRES, users, rq.email, rq.password, rq.name, rq.id,
                         now, rq.fault) IN
       IF out.resp.status = 400
       THEN /\ resp' = out.resp
            /\ cred' = <<>>
            /\ log' = out.log
            /\ fault' = "none"
            /\ UNCHANGED signing
       ELSE \* randomUUID never repeats
            /\ ~HasRow(users, rq.id)
            /\ \A p \in BagToSet(signing) : p.id # rq.id
            /\ BagCardinality(signing) < MaxPending
            /\ signing' = signing (+) SetToBag({rq})
            /\ UNCHANGED <<resp, cred, log, fault>>
    /\ UNCHANGED bootVars
    /\ UNCHANGED <<USE_POSTGRES, users, inflight, up, dup, customers, sessions, checkouts>>
    /\ UNCHANGED resetVars
    /\ UNCHANGED sessionVars
    /\ Persisted
    /\ UNCHANGED callVars

\* POST /api/auth/signup from the INSERT to the response (db.js 522-543, auth.js 84-121)
SignupEnd(p) ==
    /\ up
    /\ BagIn(p, signing)
    /\ LET out == signup(USE_POSTGRES, users, p.email, p.password, p.name, p.id,
                         now, p.fault) IN
       /\ users' = out.users
       /\ resp' = out.resp
       /\ cred' = out.token
       /\ log' = out.log
       /\ fault' = p.fault
    /\ signing' = signing (-) SetToBag({p})
    /\ UNCHANGED bootVars
    /\ UNCHANGED <<USE_POSTGRES, inflight, up, dup, customers, sessions, checkouts>>
    /\ UNCHANGED resetVars
    /\ UNCHANGED sessionVars
    /\ Persisted
    /\ UNCHANGED callVars

\* A caller of the User model updates a profile.  The UPDATE is one statement.
UpdateProfile(userId, name, email) ==
    /\ up
    /\ users' = updateProfile(USE_POSTGRES, users, userId, name, email).users
    /\ UNCHANGED bootVars
    /\ UNCHANGED <<USE_POSTGRES, inflight, resp, log, fault, up, dup, cred>>
    /\ UNCHANGED resetVars
    /\ UNCHANGED sessionVars
    /\ UNCHANGED flowVars
    /\ Persisted
    /\ UNCHANGED callVars

\* Signups with and without a name, in either letter case, and one that is too short
StoreSignups ==
    {[email |-> e, password |-> "longenough1", name |-> n, id |-> i, fault |-> "none"] :
        e \in {"a@b.com", "A@B.com", "c@d.com"}, n \in {"Ann", Absent}, i \in UserIds}
        \cup {[email |-> "a@b.com", password |-> "short", name |-> "Ann", id |-> "u1",
               fault |-> "none"]}

\* What a call of updateProfile may carry as name and as email
ProfileNames == {Absent, "", "Bob"}
ProfileEmails == {Absent, "", "A@B.com", "c@d.com"}

\* The checkout that gives u1 a subscription and a customer reference
StoreDeliveries == {ValidRequest(Event("checkout.session.completed", "u1", "cus_1", Absent))}

NextStore ==
    \/ \E rq \in StoreSignups : SignupBegin(rq)
    \/ \E p \in BagToSet(signing) : SignupEnd(p)
    \/ \E u \in UserIds, n \in ProfileNames, e \in ProfileEmails : UpdateProfile(u, n, e)
    \/ \E r \in StoreDeliveries : Deliver(r)
    \/ \E q \in BagToSet(inflight) : PgSettle(q)

SpecStore == Init /\ [][NextStore]_vars

\* ------------------------------------------------------------ checkout sessions
Session(userId, customer) == [userId |-> userId, customer |-> customer]

\* POST /api/stripe/create-checkout-session up to its first request to Stripe
\* (stripe.js 30-62): the middleware, the lookup of the user and the two checks.  A
\* user with a customer reference gets a session for that customer; for a user
\* without one the handler awaits stripe.customers.create.
CreateCheckoutBegin(header) ==
    /\ up
    /\ LET a == authenticateToken(header, now) IN
       IF ~a.ok
       THEN /\ resp' = a.resp
            /\ UNCHANGED <<log, sessions, checkouts>>
       ELSE IF ~HasRow(users, a.userId)
       THEN /\ resp' = Response(404, "User not found")
            /\ log' = Plain("[Stripe] User not found in database")
            /\ UNCHANGED <<sessions, checkouts>>
       ELSE LET user == RowOf(users, a.userId) IN
            IF user.subscription_tier = "pro" /\ user.subscription_status = "active"
            THEN /\ resp' = Response(400, "You already have an active Pro subscription")
                 /\ log' = Plain("[Stripe] User found")
                 /\ UNCHANGED <<sessions, checkouts>>
            ELSE IF user.stripe_customer_id # NULL
            THEN /\ sessions' = sessions \cup {Session(a.userId, user.stripe_customer_id)}
                 /\ resp' = Response(200, "sessionId")
                 /\ log' = Line("[Stripe] Checkout session created", a.userEmail,
                                Absent, Absent)
                 /\ UNCHANGED checkouts
            ELSE /\ BagCardinality(checkouts) < MaxPending
                 /\ Len(customers) + BagCardinality(checkouts) < Len(CustomerIds)
                 /\ checkouts' = checkouts
                        (+) SetToBag({[userId |-> a.userId, email |-> a.userEmail]})
                 /\ log' = Plain("[Stripe] User found")
                 /\ UNCHANGED <<resp, sessions>>
    /\ cred' = IF resp' = resp /\ checkouts' # checkouts THEN cred ELSE <<>>
    /\ fault' = "none"
    /\ UNCHANGED bootVars
    /\ UNCHANGED <<USE_POSTGRES, users, inflight, up, dup, signing, customers>>
    /\ UNCHANGED resetVars
    /\ UNCHANGED sessionVars
    /\ Persisted
    /\ UNCHANGED callVars

\* POST /api/stripe/create-checkout-session from the answer of stripe.customers.create
\* to the response (stripe.js 62-105): the UPDATE is handed to db.run and not awaited,
\* then the session is created for the new customer.
CustomerCreated(p) ==
    /\ up
    /\ BagIn(p, checkouts)
    /\ Len(customers) < Len(CustomerIds)
    /\ LET customerId == CustomerIds[Len(customers) + 1]
           stmt == Stmt("UPDATE users SET stripe_customer_id=? WHERE id=?",
                        <<customerId, p.userId>>)
       IN  /\ customers' = Append(customers, p.userId)
           /\ sessions' = sessions \cup {Session(p.userId, customerId)}
           /\ IF USE_POSTGRES
              THEN /\ BagCardinality(inflight) < MaxInflight
                   /\ inflight' = inflight (+) SetToBag({stmt})
                   /\ UNCHANGED <<users, up>>
              ELSE LET s == SettleAll(FALSE, users, <<stmt>>, "none") IN
                   /\ users' = s.users
                   /\ up' \in AfterRejection(s.rejected)
                   /\ UNCHANGED inflight
    /\ checkouts' = checkouts (-) SetToBag({p})
    /\ resp' = Response(200, "sessionId")
    /\ cred' = <<>>
    /\ log' = Line("[Stripe] Checkout session created", p.email, Absent, Absent)
    /\ fault' = "none"
    /\ UNCHANGED bootVars
    /\ UNCHANGED <<USE_POSTGRES, dup, signing>>
    /\ UNCHANGED resetVars
    /\ UNCHANGED sessionVars
    /\ Persisted
    /\ UNCHANGED callVars

\* Stripe reports the completion of a checkout session this server created
CheckoutCompleted(s) ==
    Deliver(ValidRequest(Event("checkout.session.completed", s.userId, s.customer, Absent)))

NextCheckout ==
    \/ \E rq \in ResetSignups : Signup(rq)
    \/ Keep
    \/ \E h \in Headers : CreateCheckoutBegin(h)
    \/ \E p \in BagToSet(checkouts) : CustomerCreated(p)
    \/ \E s \in sessions : CheckoutCompleted(s)
    \/ \E q \in BagToSet(inflight) : PgSettle(q)

SpecCheckout == Init /\ [][NextCheckout]_vars

\* ------------------------------------------------------------ startup
\* 'SELECT 1 as test' is answered: by the server when it is reachable, by the
\* in-memory image of sql.js always
SelectOne(postgres, reach) == postgres => reach

testConnectionBlind(postgres, reach) == TRUE

\* testConnection: the networked branch awaits the query and returns false when it
\* throws; the embedded branch does not await get(...) and returns true
testConnection(postgres, reach) ==
    IF postgres THEN SelectOne(postgres, reach) ELSE TRUE

\* isInitialized: the networked branch asks information_schema and returns false on
\* an error; the embedded branch returns !!(the promise of get), which is true
isInitialized(postgres, reach, tables) ==
    IF postgres THEN reach /\ tables ELSE TRUE

\* startServer ended by an exception nobody catches
StartRejected ==
    /\ boot' = [boot EXCEPT !.phase = "failed"]
    /\ up' \in AfterRejection(TRUE)

\* await initDatabase(): initPostgres connects once, initSqlite loads sql.js and the file
InitDatabase ==
    /\ up
    /\ boot.phase = "init"
    /\ IF reachable
       THEN /\ boot' = [boot EXCEPT !.phase = "test", !.initialised = TRUE]
            /\ log' = Plain(IF USE_POSTGRES THEN "[Database] Connected to PostgreSQL"
                                            ELSE "[Database] Loaded SQLite database")
            /\ UNCHANGED up
       ELSE /\ StartRejected
            /\ log' = Plain(IF USE_POSTGRES THEN "[Database] PostgreSQL connection failed"
                                            ELSE log.msg)
    /\ UNCHANGED <<USE_POSTGRES, users, inflight, resp, fault, dup, cred, reachable>>
    /\ UNCHANGED resetVars
    /\ UNCHANGED sessionVars
    /\ UNCHANGED flowVars
    /\ Persisted
    /\ UNCHANGED callVars

\* const dbConnected = await testConnection(); if (!dbConnected) process.exit(1)
TestConnection ==
    /\ up
    /\ boot.phase = "test"
    /\ LET dbConnected == testConnection(USE_POSTGRES, reachable) IN
       IF dbConnected
       THEN /\ boot' = [boot EXCEPT !.phase = "tables",
                                    !.tested = SelectOne(USE_POSTGRES, reachable)]
            /\ log' = Plain("[Database] connection test successful")
            /\ UNCHANGED up
       ELSE /\ boot' = [boot EXCEPT !.phase = "exited"]
            /\ log' = Plain("[ERROR] Could not connect to database.")
            /\ up' = FALSE
    /\ UNCHANGED <<USE_POSTGRES, users, inflight, resp, fault, dup, cred, reachable>>
    /\ UNCHANGED resetVars
    /\ UNCHANGED sessionVars
    /\ UNCHANGED flowVars
    /\ Persisted
    /\ UNCHANGED callVars

\* const tablesExist = await isInitialized(); without tables setupTables is awaited
\* next, with tables app.listen follows
IsInitialized ==
    /\ up
    /\ boot.phase = "tables"
    /\ LET tablesExist == isInitialized(USE_POSTGRES, reachable, boot.tables) IN
       /\ boot' = [boot EXCEPT !.phase = IF tablesExist THEN "listening" ELSE "setup"]
       /\ log' = Plain(IF tablesExist THEN "[Server] Tables exist: true"
                                      ELSE "[Server] Database tables not found, initializing...")
    /\ UNCHANGED <<USE_POSTGRES, users, inflight, resp, fault, up, dup, cred, reachable>>
    /\ UNCHANGED resetVars
    /\ UNCHANGED sessionVars
    /\ UNCHANGED flowVars
    /\ Persisted
    /\ UNCHANGED callVars

\* await setupTables(): CREATE TABLE IF NOT EXISTS ...; then app.listen
SetupTables ==
    /\ up
    /\ boot.phase = "setup"
    /\ IF SelectOne(USE_POSTGRES, reachable)
       THEN /\ boot' = [boot EXCEPT !.phase = "listening", !.tables = TRUE]
            /\ log' = Plain("[Server] Database tables initialized successfully")
            /\ UNCHANGED up
       ELSE /\ StartRejected
            /\ log' = Plain("[Database] Failed to create tables:")
    /\ UNCHANGED <<USE_POSTGRES, users, inflight, resp, fault, dup, cred, reachable>>
    /\ UNCHANGED resetVars
    /\ UNCHANGED sessionVars
    /\ UNCHANGED flowVars
    /\ Persisted
    /\ UNCHANGED callVars

\* The backend goes away or comes back while the server starts
Outage ==
    /\ up
    /\ boot.phase \in {"init", "test", "tables", "setup"}
    /\ reachable' = ~reachable
    /\ UNCHANGED <<USE_POSTGRES, users, inflight, resp, log, fault, up, dup, cred, boot>>
    /\ UNCHANGED resetVars
    /\ UNCHANGED sessionVars
    /\ UNCHANGED flowVars
    /\ Persisted
    /\ UNCHANGED callVars

\* The process at the first line of startServer
InitStart ==
    /\ Fresh
    /\ boot \in {Boot("init", FALSE, FALSE, tables) : tables \in BOOLEAN}
    /\ reachable \in BOOLEAN
    /\ file = CurrentImage
    /\ written = <<>>

\* app.listen has run on a database with its tables: the routes answer
Serving == boot.phase = "listening" /\ boot.tables

NextStart ==
    \/ InitDatabase
    \/ TestConnection
    \/ IsInitialized
    \/ SetupTables
    \/ Outage
    \/ Serving /\ \E rq \in AuthSignups : Signup(rq)
    \/ Serving /\ \E rq \in LoginRequests : Login(rq.email, rq.password)

SpecStart == InitStart /\ [][NextStart]_vars

\* ------------------------------------------------------------ the db functions
\* The statement as the embedded backend executes it: without the tables every
\* statement on them fails
SqliteStep(stmt, f) ==
    IF ~boot.tables THEN Raised(users, "no such table") ELSE SqliteRun(users, stmt, f)

\* db.run(sql, params) called by itself (db.js 106-115).  Embedded: sqliteDb.run, then
\* saveSqlite, then the promise resolves; a statement that throws rejects it before
\* saveSqlite.  Networked: the text goes to the pool as it is.
Run(stmt, f) ==
    /\ up
    /\ boot.phase = "listening"
    /\ USE_POSTGRES => f = "none"
    /\ IF USE_POSTGRES
       THEN /\ BagCardinality(inflight) < MaxInflight
            /\ inflight' = inflight (+) SetToBag({stmt})
            /\ UNCHANGED <<users, file, answer>>
       ELSE LET r == SqliteStep(stmt, f) IN
            /\ users' = r.users
            /\ file' = IF r.ok
                       THEN saveSqlite(USE_POSTGRES, boot.initialised, file,
                                       Image(boot.tables, r.users, tokens))
                       ELSE file
            /\ answer' = IF r.ok THEN Resolved({}) ELSE Failed
            /\ UNCHANGED inflight
    /\ fault' = f
    /\ UNCHANGED <<USE_POSTGRES, resp, log, up, dup, cred, written, converted>>
    /\ UNCHANGED bootVars
    /\ UNCHANGED resetVars
    /\ UNCHANGED sessionVars
    /\ UNCHANGED flowVars

\* db.query(sql, params) (db.js 465-468): run on the converted text
Query(stmt, f) == Run(convertPlaceholders(USE_POSTGRES, stmt), f)

\* db.exec(sql) (db.js 159-166) with a statement of setupTables: the schema changes,
\* and on the embedded backend saveSqlite follows
Exec(f) ==
    /\ up
    /\ boot.phase = "listening"
    /\ IF f = "stmt"
       THEN /\ answer' = Failed
            /\ UNCHANGED <<boot, file>>
       ELSE /\ boot' = [boot EXCEPT !.tables = TRUE]
            /\ file' = saveSqlite(USE_POSTGRES, boot.initialised, file,
                                  Image(TRUE, users, tokens))
            /\ answer' = Resolved({})
    /\ fault' = f
    /\ UNCHANGED <<USE_POSTGRES, users, inflight, resp, log, up, dup, cred, written, converted,
                   reachable>>
    /\ UNCHANGED resetVars
    /\ UNCHANGED sessionVars
    /\ UNCHANGED flowVars

\* db.get(sql, params) and db.all(sql, params) (db.js 120-153): the statement is
\* prepared, bound and stepped; nothing is saved
Read(stmt, single, f) ==
    /\ up
    /\ boot.phase = "listening"
    /\ LET r == IF USE_POSTGRES THEN PgQuery(users, stmt, f) ELSE SqliteStep(stmt, f)
           rows == CASE stmt.sql = "SELECT * FROM users WHERE id=?"
                            -> {x \in users : x.id = stmt.params[1]}
                     [] stmt.sql = "SELECT * FROM users" -> users
                     [] OTHER -> {}
       IN  answer' = IF ~r.ok THEN Failed
                     ELSE IF single /\ rows # {} THEN Resolved({CHOOSE x \in rows : TRUE})
                     ELSE Resolved(rows)
    /\ fault' = f
    /\ UNCHANGED <<USE_POSTGRES, users, inflight, resp, log, up, dup, cred, written, converted,
                   file>>
    /\ UNCHANGED bootVars
    /\ UNCHANGED resetVars
    /\ UNCHANGED sessionVars
    /\ UNCHANGED flowVars

Get(stmt, f) == Read(stmt, TRUE, f)
All(stmt, f) == Read(stmt, FALSE, f)

FileStatements ==
    {Stmt("INSERT INTO users (id,email,password_hash,name)",
          <<"u1", "a@b.com", BcryptHash("longenough1"), "Ann">>),
     Stmt("INSERT INTO users (id,email,password_hash,name)",
          <<"u2", "c@d.com", BcryptHash("longenough1"), "Bob">>),
     Stmt("INSERT INTO users (id,email,password_hash,name)",
          <<"u2", "a@b.com", BcryptHash("longenough1"), Absent>>),
     Stmt("UPDATE users SET last_login=? WHERE id=?", <<At(0), "u1">>),
     Stmt("UPDATE users SET tier=pro,status=active,customer=? WHERE id=?", <<"cus_1", "u1">>),
     Stmt("UPDATE users SET tier=free,status=canceled WHERE id=?", <<"u2">>)}

FileQueries == {Stmt("SELECT * FROM users WHERE id=?", <<u>>) : u \in UserIds}

\* The server listens; on the embedded backend possibly without its tables
InitFile ==
    /\ Fresh
    /\ boot \in {Boot("listening", TRUE, TRUE, tables) : tables \in BOOLEAN}
    /\ USE_POSTGRES => boot.tables
    /\ reachable = TRUE
    /\ file = CurrentImage
    /\ written = <<>>

NextFile ==
    \/ \E stmt \in FileStatements, f \in Faults : Run(stmt, f)
    \/ \E stmt \in FileStatements, f \in Faults : Query(stmt, f)
    \/ \E f \in Faults : Exec(f)
    \/ \E stmt \in FileQueries, f \in Faults : Get(stmt, f)
    \/ \E f \in Faults : All(Stmt("SELECT * FROM users", <<>>), f)
    \/ \E q \in BagToSet(inflight) : PgSettle(q)

SpecFile == InitFile /\ [][NextFile]_vars

\* ------------------------------------------------------------ placeholder conversion
\* query, getOne or getAll calls convertPlaceholders on the text its caller wrote
ConvertPlaceholders ==
    /\ ~converted.done
    /\ converted' = [done |-> TRUE, text |-> convertPlaceholdersText(USE_POSTGRES, written)]
    /\ UNCHANGED <<USE_POSTGRES, users, inflight, resp, log, fault, up, dup, cred,
                   file, answer, written>>
    /\ UNCHANGED bootVars
    /\ UNCHANGED resetVars
    /\ UNCHANGED sessionVars
    /\ UNCHANGED flowVars

\* A caller has written a statement
InitConvert ==
    /\ Fresh
    /\ boot = Listening
    /\ reachable = TRUE
    /\ file = CurrentImage
    /\ written \in Texts

SpecConvert == InitConvert /\ [][ConvertPlaceholders]_vars

\* ------------------------------------------------------------ failed payments
\* invoice.payment_failed events next to accounts that hold reset tokens
PaymentDeliveries ==
    {ValidRequest(e) : e \in PaymentFailedEvents
                               \cup {Event("invoice.payment_failed", "u1", "cus_1", Absent),
                                     Event("checkout.session.completed", "u1", "cus_1", Absent)}}

NextPayment ==
    \/ \E rq \in ResetSignups : Signup(rq)
    \/ \E e \in RawEmails : ForgotPassword(e)
    \/ \E r \in PaymentDeliveries : Deliver(r)
    \/ \E q \in BagToSet(inflight) : PgSettle(q)

SpecPayment == Init /\ [][NextPayment]_vars

\* ============================================================ properties
Settled == inflight = EmptyBag

GoodSignature(r) == r.sig.key = WebhookSecret /\ r.sig.over = r.body

Entitled == {"active", "trialing"}

\* C1: in every reachable state every user row has: tier pro implies status active or
\* trialing, and a status other than active or trialing implies tier free.
TierStatusInvariant ==
    \A r \in users :
        /\ r.subscription_tier = "pro" => r.subscription_status \in Entitled
        /\ r.subscription_status \notin Entitled => r.subscription_tier = "free"

\* a trialing pro user next to a canceled free user
TierStatusWitness ==
    /\ \E r \in users : r.subscription_tier = "pro" /\ r.subscription_status = "trialing"
    /\ \E r \in users : r.subscription_tier = "free" /\ r.subscription_status = "canceled"

\* C2: a verified customer.subscription.deleted event without metadata.userId whose
\* customer is the stripe_customer_id of an existing user leaves that user free and
\* canceled once the webhook has been handled.
DeletedByCustomerCancels ==
    [][\A e \in DeletedEvents :
          ( /\ e.userId = Absent
            /\ Cardinality({r \in users : r.stripe_customer_id = e.customer}) = 1
            /\ Deliver(ValidRequest(e)) )
          => \A r \in users' :
                r.stripe_customer_id = e.customer =>
                    r.subscription_tier = "free" /\ r.subscription_status = "canceled"]_vars

\* C3: once a verified checkout.session.completed event for an existing user u has been
\* handled without a store fault and the store has settled, u is pro and active and
\* has a customer reference.
CheckoutSetsProActive ==
    \A u \in UserIds :
        ( /\ log = Line("[Stripe] User upgraded to Pro", u, "pro", "active")
          /\ fault = "none" /\ Settled /\ HasRow(users, u) )
        => LET r == RowOf(users, u) IN
           /\ r.subscription_tier = "pro"
           /\ r.subscription_status = "active"
           /\ r.stripe_customer_id \in Customers

\* C4: once a verified customer.subscription.created/updated event with status S for
\* an existing user u has been handled without a store fault and the store has
\* settled, u's status is S and u's tier is pro exactly if S is active or trialing.
SubscriptionUpdateSetsTierAndStatus ==
    \A u \in UserIds, S \in Statuses :
        ( /\ log.msg = "[Stripe] Subscription updated" /\ log.user = u /\ log.status = S
          /\ fault = "none" /\ Settled /\ HasRow(users, u) )
        => LET r == RowOf(users, u) IN
           /\ r.subscription_status = S
           /\ r.subscription_tier = (IF S \in Entitled THEN "pro" ELSE "free")

\* C7: last write wins.  When the last acknowledged event prescribes (tier, status)
\* for an existing user u, whatever was delivered before it, u has that tier and
\* status once the store has settled.
Prescribing == {"[Stripe] User upgraded to Pro", "[Stripe] Subscription updated",
                "[Stripe] Subscription canceled"}

LastWriteWins ==
    ( /\ log.msg \in Prescribing /\ log.user \in UserIds
      /\ fault = "none" /\ Settled /\ HasRow(users, log.user) )
    => LET r == RowOf(users, log.user) IN
       <<r.subscription_tier, r.subscription_status>> = <<log.tier, log.status>>

\* C8: a webhook request whose signature does not verify against the delivered raw
\* body is answered 400, no event handler runs and no row changes.
BadSignatureRequests == {r \in WebhookRequests : ~GoodSignature(r)}

BadSignatureRejected ==
    [][\A r \in BadSignatureRequests :
          Deliver(r)
          => /\ resp'.status = 400
             /\ log' = Plain("[Stripe Webhook] Signature verification failed")
             /\ users' = users
             /\ inflight' = inflight]_vars

\* a 400 in front of a table that holds a paying user
BadSignatureWitness ==
    /\ resp = Response(400, "Webhook Error")
    /\ \E r \in users : r.subscription_tier = "pro"

\* C9: when the statement issued for a verified checkout-completed, subscription
\* created/updated or subscription-deleted event raises an error, the webhook answers
\* 500 and not {received: true}.
StoreErrorAnswers500 ==
    [][\A r \in WebhookRequests :
          ( /\ GoodSignature(r)
            /\ r.body.type \in KnownTypes \ {"invoice.payment_failed"}
            /\ r.body.userId # Absent
            /\ r.fault = "stmt"
            /\ Deliver(r) )
          => resp'.status = 500 /\ resp'.body # "received: true"]_vars

\* C10: a verified event of a type other than the five handled ones is acknowledged
\* with {received: true}; no row changes and no statement is issued.
UnknownTypeRequests ==
    {r \in WebhookRequests : GoodSignature(r) /\ r.body.type \notin KnownTypes}

UnknownTypeIgnored ==
    [][\A r \in UnknownTypeRequests :
          Deliver(r)
          => /\ resp' = Response(200, "received: true")
             /\ users' = users
             /\ inflight' = inflight]_vars

\* an unhandled type acknowledged in front of a paying user
UnknownTypeWitness ==
    /\ log = Plain("[Stripe Webhook] Unhandled event type")
    /\ resp = Response(200, "received: true")
    /\ \E r \in users : r.subscription_tier = "pro"

\* C11: a verified checkout-completed or subscription-created/updated event without
\* metadata.userId is acknowledged with {received: true}; no user row changes and no
\* statement is handed to the store.
NoUserRefRequests ==
    {ValidRequest(e) : e \in {Event("checkout.session.completed", Absent, "cus_1", Absent),
                              Event("customer.subscription.created", Absent, "cus_1", "active"),
                              Event("customer.subscription.updated", Absent, "cus_1", "canceled")}}

MissingUserRefAcknowledged ==
    [][\A r \in NoUserRefRequests :
          Deliver(r)
          => /\ resp' = Response(200, "received: true")
             /\ users' = users
             /\ inflight' = inflight]_vars

\* a subscription event without user reference acknowledged in front of a paying user
MissingUserRefWitness ==
    /\ log = Plain("[Stripe] No userId in subscription metadata")
    /\ resp = Response(200, "received: true")
    /\ \E r \in users : r.subscription_tier = "pro"

\* C12: handling a verified invoice.payment_failed event leaves every user row and
\* every reset-token row unchanged, when the handler runs and when the store settles
\* the lookup it sent, whether or not the customer matches a user.
PaymentFailedRequests == {r \in PaymentDeliveries : r.body.type = "invoice.payment_failed"}

PaymentFailedChangesNothing ==
    [][/\ \A r \in PaymentFailedRequests :
             Deliver(r) => users' = users /\ tokens' = tokens
       /\ \A r \in PaymentFailedRequests :
             \A i \in DOMAIN handleWebhook(r.body, r.sig).issued :
                PgSettle(handleWebhook(r.body, r.sig).issued[i])
                => users' = users /\ tokens' = tokens]_vars

\* a failed payment of a paying customer who holds a reset token
PaymentFailedWitness ==
    /\ log.msg = "[Stripe] Payment failed"
    /\ resp = Response(200, "received: true")
    /\ \E r \in users :
          /\ r.stripe_customer_id = "cus_1" /\ r.subscription_tier = "pro"
          /\ \E t \in tokens : t.user_id = r.id

\* C5: handling the same verified event twice in sequence leaves the table as it was
\* after handling it once (SpecDup; the second delivery found the first settled).
TwiceInSequenceIsOnce ==
    (dup.phase = "two" /\ dup.sequential /\ Settled) => users = dup.afterFirst

\* a subscription update delivered twice in sequence to a user it changed
TwiceInSequenceWitness ==
    /\ dup.phase = "two" /\ dup.sequential /\ Settled
    /\ dup.event.type = "customer.subscription.updated"
    /\ \E r \in users : /\ r.id = dup.event.userId
                        /\ r.subscription_status = dup.event.status
                        /\ r.subscription_status = "paused"

\* C6: two deliveries of the identical verified event, in any interleaving, end in
\* the table a single delivery ends in (SpecDup).
DuplicateDeliveryIsSingle ==
    (dup.phase = "two" /\ Settled) => users = dup.single

\* the second delivery arrived while the first one's statements were in flight
DuplicateDeliveryWitness ==
    /\ dup.phase = "two" /\ ~dup.sequential /\ Settled
    /\ dup.event.type = "customer.subscription.deleted"
    /\ HasRow(users, dup.event.userId)

\* ------------------------------------------------------------ reset-password answers
\* reset-password answers a request that presented token t with password pw: in the
\* step of the request itself, or in the step that goes on after the SELECT
ResetAnswers(t, pw) ==
    \/ ResetPassword(t, pw) /\ pending' = pending
    \/ \E p \in BagToSet(pending) : p.token = t /\ p.password = pw /\ ResetFinish(p)

SecretSet == {Secrets[k] : k \in DOMAIN Secrets}
AcceptablePasswords == {pw \in ResetPasswords : pw # "" /\ PasswordLength(pw) >= 8}

\* C13: a reset-password request that presents a stored, unexpired secret with a new
\* password of at least 8 characters is answered 200, stores the hash of the new
\* password for the owning user and removes that user's token row.
ValidResetSucceeds ==
    [][\A t \in SecretSet, pw \in AcceptablePasswords :
          LET rec == SelectByTokenHash(tokens, Sha256(t)) IN
          (rec.user_id # Absent /\ ~Expired(rec.expires_at, now) /\ ResetAnswers(t, pw))
          => /\ resp'.status = 200
             /\ \A r \in users' : r.id = rec.user_id => r.password_hash = BcryptHash(pw)
             /\ \A r \in tokens' : r.user_id # rec.user_id]_vars

\* C14: once reset-password has consumed a secret (it found the secret stored and
\* unexpired, presented with an acceptable password), every later reset-password
\* request that presents the same secret is answered 400 and changes no password.
SecondConsumptionRejected ==
    [][\A t \in hist.used, pw \in AcceptablePasswords :
          ResetAnswers(t, pw) => resp'.status = 400 /\ users' = users]_vars

\* C15: for every interleaving of reset-password requests that present the same
\* secret, at most one is answered 200 and at most one password update is made.
AtMostOneResetPerSecret ==
    \A k \in DOMAIN Secrets : hist.ok[k] <= 1 /\ hist.upd[k] <= 1

\* two requests presenting the same secret were in progress together, and both
\* have been answered
ConcurrentResetsWitness ==
    /\ hist.raced # {}
    /\ pending = EmptyBag
    /\ resp.status = 500

\* C16: after two forgot-password requests for the same user, the secret of the first
\* is treated as invalid by verify-reset-token and by reset-password, and the secret
\* of the second is accepted for the hour it lives.
EarlierSecretInvalidated ==
    \A i \in DOMAIN generated, j \in DOMAIN generated :
        (i < j /\ generated[i].user = generated[j].user)
        => /\ verifyResetToken(tokens, now, Secrets[i]) = Response(200, "valid: false")
           /\ \A pw \in AcceptablePasswords :
                 resetPassword(users, tokens, now, Secrets[i], pw).resp
                     = Response(400, "Invalid or expired reset token")
           /\ ( /\ \A k \in DOMAIN generated : k > j => generated[k].user # generated[j].user
                /\ now <= generated[j].at + TokenTtl )
              => /\ verifyResetToken(tokens, now, Secrets[j]) = Response(200, "valid: true")
                 /\ \A pw \in AcceptablePasswords :
                       resetPassword(users, tokens, now, Secrets[j], pw).valid

\* the probe has answered for a user whose first secret was replaced by a second
EarlierSecretWitness ==
    /\ Len(generated) = 2
    /\ generated[1].user = generated[2].user
    /\ now <= generated[2].at + TokenTtl
    /\ resp = Response(200, "valid: false")

\* C17: in every reachable state the password_reset_tokens table holds at most one
\* row per user id.
OneTokenRowPerUser ==
    \A a \in tokens, b \in tokens : a.user_id = b.user_id => a = b

\* a second request has replaced the token of a user, after reset-password had
\* found the first one stored
OneTokenRowWitness ==
    /\ Len(generated) = 2
    /\ generated[1].user = generated[2].user
    /\ \E r \in tokens : r.token_hash = Sha256(Secrets[2])
    /\ hist.used # {}

\* C18 as stated: a reset-password request that presents a secret whose stored expiry
\* is in the past is answered 400, deletes that token row and leaves the password
\* hashes unchanged.
ExpiredResetDeletesToken ==
    [][\A t \in SecretSet, pw \in ResetPasswords :
          LET rec == SelectByTokenHash(tokens, Sha256(t)) IN
          (rec.user_id # Absent /\ Expired(rec.expires_at, now) /\ ResetAnswers(t, pw))
          => /\ resp'.status = 400
             /\ SelectByTokenHash(tokens', Sha256(t)) = NoRecord
             /\ users' = users]_vars

\* C18 amended: a reset-password request that presents, together with a new password
\* of at least 8 characters, a secret whose stored expiry is in the past is answered
\* 400, deletes that token row and leaves the password hashes unchanged.
ExpiredResetWithPasswordDeletesToken ==
    [][\A t \in SecretSet, pw \in AcceptablePasswords :
          LET rec == SelectByTokenHash(tokens, Sha256(t)) IN
          (rec.user_id # Absent /\ Expired(rec.expires_at, now) /\ ResetAnswers(t, pw))
          => /\ resp'.status = 400
             /\ SelectByTokenHash(tokens', Sha256(t)) = NoRecord
             /\ users' = users]_vars

\* an expired token was presented and its row is gone
ExpiredResetWitness ==
    /\ resp = Response(400, "Reset token has expired. Please request a new one.")
    /\ tokens = {}
    /\ generated # <<>>

\* C19: reset-password returns the same status and body for a secret that matches no
\* stored token and for a secret that matches an expired token.
ExpiredLooksLikeUnknown ==
    \A t \in SecretSet, pw \in AcceptablePasswords :
        LET rec == SelectByTokenHash(tokens, Sha256(t)) IN
        (rec.user_id # Absent /\ Expired(rec.expires_at, now))
        => resetPassword(users, tokens, now, t, pw).resp
               = resetPassword(users, tokens, now, "bogus", pw).resp

\* C20: a forgot-password request for an email that belongs to no user gets the status
\* and body a request for the email of an existing user gets, and it creates or
\* changes no row.
UnknownEmailLooksLikeKnown ==
    [][\A e \in RawEmails \ {""} :
          (findByEmail(users, e) = Absent /\ ForgotPassword(e))
          => /\ users' = users /\ tokens' = tokens /\ generated' = generated
             /\ \A known \in RawEmails :
                   (findByEmail(users, known) # Absent /\ Len(generated) < Len(Secrets))
                   => resp' = forgotPassword(users, tokens, generated, now, known).resp]_vars

\* a request for an unknown email answered next to an account that holds a token
UnknownEmailWitness ==
    /\ log = Plain("[Password Reset] User not found")
    /\ resp = Response(200, ResetLinkSent)
    /\ tokens # {}
    /\ Len(generated) < Len(Secrets)

\* ------------------------------------------------------------ signup and login
\* the spellings of an email that differ in letter case only
SameEmail(email) == {e \in RawEmails : Normalize(e) = Normalize(email)}

\* a signup the route has nothing to object to: a well-formed email that is not
\* registered, a password of at least 8 characters, a store that works
ValidSignup(rq) ==
    /\ EmailRegexTest(rq.email)
    /\ PasswordLength(rq.password) >= 8
    /\ rq.fault = "none"
    /\ ~\E r \in users : r.email = Normalize(rq.email)

\* C21: a valid signup is answered 201, and after it a login with the same email in
\* any letter case and the same password is answered 200 with a credential that
\* verifies and carries the id the signup returned.
SignupThenLogin ==
    [][\A rq \in AuthSignups :
          (ValidSignup(rq) /\ Signup(rq))
          => /\ resp'.status = 201
             /\ \A e \in SameEmail(rq.email) :
                   LET out == login(USE_POSTGRES, users', e, rq.password, now) IN
                   /\ out.resp.status = 200
                   /\ out.token # <<>>
                   /\ authenticateToken(out.token, now).ok
                   /\ authenticateToken(out.token, now).userId = rq.id]_vars

\* C22: a signup whose email equals a registered email up to letter case is answered
\* 409, and the users table is as it was: no row added, the existing row unchanged.
DuplicateEmailRejected ==
    [][\A rq \in AuthSignups :
          ( /\ EmailRegexTest(rq.email) /\ PasswordLength(rq.password) >= 8
            /\ rq.fault = "none"
            /\ \E r \in users : r.email = Normalize(rq.email)
            /\ Signup(rq) )
          => resp'.status = 409 /\ users' = users]_vars

\* C23: whenever a signup that awaited its hash next to others goes on, it is answered
\* 409 and changes nothing if its normalized email is registered, and otherwise it is
\* answered 201 and adds the one row for its id and email; after every step no two
\* user rows have the same email.
UniqueEmails == \A a \in users, b \in users : a.email = b.email => a = b

ConcurrentSignupsOneWins ==
    [][/\ \A p \in BagToSet(signing) :
             (PasswordLength(p.password) >= 8 /\ SignupEnd(p))
             => IF \E r \in users : r.email = Normalize(p.email)
                THEN resp'.status = 409 /\ users' = users
                ELSE /\ resp'.status = 201
                     /\ \E r \in users' : /\ r.id = p.id /\ r.email = Normalize(p.email)
                                           /\ users' = users \cup {r}
       /\ UniqueEmails']_vars

\* C30: a call of updateProfile leaves every other row as it was, and in the row of
\* its user a field the call does not supply keeps its stored value (it is never set
\* to NULL), a field it supplies holds the stored or the supplied value, and the
\* subscription fields, the password hash, the customer reference and last_login
\* are unchanged.
ProfileUpdateFrame ==
    [][\A u \in UserIds, n \in ProfileNames, e \in ProfileEmails :
          UpdateProfile(u, n, e)
          => /\ {r.id : r \in users'} = {r.id : r \in users}
             /\ Cardinality(users') = Cardinality(users)
             /\ \A r \in users :
                   LET after == RowOf(users', r.id) IN
                   /\ r.id # u => after = r
                   /\ ~Supplied(n) => after.name = r.name
                   /\ ~Supplied(e) => after.email = r.email
                   /\ after.name \in {r.name, n}
                   /\ after.email \in {r.email, Normalize(e)}
                   /\ after.email # NULL
                   /\ after.name = NULL => r.name = NULL
                   /\ after.password_hash = r.password_hash
                   /\ after.subscription_tier = r.subscription_tier
                   /\ after.subscription_status = r.subscription_status
                   /\ after.stripe_customer_id = r.stripe_customer_id
                   /\ after.last_login = r.last_login]_vars

\* a paying user whose name and email were rewritten
ProfileUpdateWitness ==
    \E r \in users :
        /\ r.id = "u1" /\ r.name = "Bob" /\ r.email = "c@d.com"
        /\ r.subscription_tier = "pro" /\ r.stripe_customer_id = "cus_1"

\* ------------------------------------------------------------ credentials of users
Accepted(userId, email) ==
    [ok |-> TRUE, resp |-> Response(0, "none"), userId |-> userId, userEmail |-> email]

\* the token of a response authenticates as (userId, email) from the hour clock to the
\* last hour of its window
IssuedTo(token, userId, email, clock) ==
    /\ token # <<>>
    /\ \A t \in {clock, clock + 1, clock + JWT_EXPIRATION - 1} :
          authenticateToken(token, t) = Accepted(userId, email)

\* at the hour clock, credential c passes as what it was issued for while its window
\* lasts, and c past its window, c under another key, c with another user's id in
\* its payload and a string that is no JWT all get the one 403 response
OneRejection(c, clock) ==
    LET bad == Rejected(403, "Invalid or expired token") IN
    /\ clock < c.payload.exp
          => authenticateToken(<<c>>, clock) = Accepted(c.payload.userId, c.payload.email)
    /\ clock >= c.payload.exp => authenticateToken(<<c>>, clock) = bad
    /\ authenticateToken(<<Forged(c)>>, clock) = bad
    /\ \A u \in UserIds \ {c.payload.userId} :
          authenticateToken(<<Tampered(c, u)>>, clock) = bad
    /\ authenticateToken(<<Garbage>>, clock) = bad

\* C24: the credential a signup or a login returns authenticates as the id and email
\* of its user throughout its 7-day window, and at every later hour a credential a
\* client holds is accepted as that user while the window lasts, and once it is past
\* its expiry, tampered with, forged or malformed it gets one and the same response.
CredentialAuthenticates ==
    [][/\ \A rq \in AuthSignups :
             (resp'.status = 201 /\ Signup(rq))
             => IssuedTo(cred', rq.id, Normalize(rq.email), now)
       /\ \A rq \in LoginRequests :
             (resp' = Response(200, "success: true") /\ Login(rq.email, rq.password))
             => \E r \in users :
                   r.email = Normalize(rq.email) /\ IssuedTo(cred', r.id, r.email, now)
       /\ \A c \in held' :
             /\ OneRejection(c, now')
             /\ \E r \in users' : r.id = c.payload.userId /\ r.email = c.payload.email]_vars

\* a request with a credential past its expiry was answered 403 while another
\* client holds a credential that is still inside its window
CredentialWitness ==
    /\ resp = Response(403, "Invalid or expired token")
    /\ \E c \in held : now >= c.payload.exp
    /\ \E c \in held : c.payload.iat > 0 /\ now < c.payload.exp /\ now > c.payload.iat

\* C25: a logout changes no row and no request in progress, and after every step a
\* credential that a logout was acknowledged for is accepted by authenticateToken, as
\* the user it names, as long as its 7-day window lasts.
LogoutRevokesNothing ==
    [][/\ \A h \in Headers :
             Logout(h) => /\ users' = users /\ tokens' = tokens
                          /\ inflight' = inflight /\ pending' = pending
       /\ \A c \in loggedOut' :
             now' < c.payload.exp
             => authenticateToken(<<c>>, now') = Accepted(c.payload.userId, c.payload.email)]_vars

\* hours after its logout was acknowledged, the credential has fetched the profile
\* of its user
LogoutWitness ==
    /\ \E c \in loggedOut :
          /\ now > c.payload.iat /\ now < c.payload.exp
          /\ \A d \in held : d.payload.userId = c.payload.userId => d = c
          /\ resp = Response(200, c.payload.email)
    /\ log.msg = "[Auth] User logged out"

\* a login that carries both fields and fails: nobody has the email, or the password
\* is not the one of the user who has it
FailedLogin(rq) ==
    /\ rq.email # "" /\ rq.password # ""
    /\ \A r \in users :
          r.email = Normalize(rq.email) => ~verifyPassword(rq.password, r.password_hash)

\* C26: a failed login is answered 401 with the body a login with a wrong password
\* gets for every existing user and the body a login for an email nobody has gets,
\* it returns no credential, and it leaves every row as it was, last_login included.
FailedLoginUniform ==
    [][\A rq \in LoginRequests :
          (FailedLogin(rq) /\ Login(rq.email, rq.password))
          => /\ resp'.status = 401
             /\ \A r \in users :
                   resp' = login(USE_POSTGRES, users, r.email, "short", now).resp
             /\ resp' = login(USE_POSTGRES, users, "not-an-email", rq.password, now).resp
             /\ cred' = <<>>
             /\ users' = users
             /\ tokens' = tokens]_vars

\* a login was refused, hours after the user it names had logged in
FailedLoginWitness ==
    /\ resp = Response(401, BadLogin)
    /\ \E r \in users : /\ r.email = "a@b.com"
                        /\ r.last_login # NoTime
                        /\ now > r.last_login[1]

\* C27: every statement on its way to the networked backend has had its placeholders
\* rewritten, and from every reachable users table a verified event and a signup
\* lead to the same users table on the networked as on the embedded backend.
SameOnBothBackends ==
    /\ \A q \in BagToSet(inflight) : q.ph = "$n"
    /\ \A e \in Events :
          LET issued == handleWebhook(e, Sign(WebhookSecret, e)).issued IN
          SettleAll(TRUE, users, issued, "none").users
              = SettleAll(FALSE, users, issued, "none").users
    /\ \A rq \in SignupRequests :
          (rq.fault = "none" /\ ~HasRow(users, rq.id))
          => signup(TRUE, users, rq.email, rq.password, rq.name, rq.id, now, "none").users
                 = signup(FALSE, users, rq.email, rq.password, rq.name, rq.id, now, "none").users

\* C28: no step changes a stripe_customer_id that is not NULL.
CustomerReferenceStable ==
    [][\A r \in users :
          r.stripe_customer_id # NULL
          => \E after \in users' :
                after.id = r.id /\ after.stripe_customer_id = r.stripe_customer_id]_vars

\* startServer has ended without app.listen
Aborted == boot.phase \in {"exited", "failed"}

\* C29: whenever the server listens, initDatabase has returned and the statement of
\* the connection test was answered; a start that was aborted stays aborted, with the
\* process ended by process.exit; and no request is answered before the server listens.
ListenOnlyAfterTest ==
    /\ [](boot.phase = "listening" => boot.initialised /\ boot.tested)
    /\ [](boot.phase = "exited" => ~up)
    /\ [](boot.phase # "listening" => resp = Response(0, "none"))
    /\ [][Aborted => boot' = boot]_vars

ListenWitness ==
    /\ boot.phase = "listening"
    /\ USE_POSTGRES
    /\ resp.status = 201

\* ------------------------------------------------------------ reset-password, rejected and failed requests
\* C32: a reset-password request with a missing token, a missing password or a
\* password shorter than 8 characters is answered 400 and changes no row: the token
\* rows and the password hashes are as they were.
InvalidResetChangesNothing ==
    [][\/ /\ resp'.status = 400
          /\ users' = users
          /\ tokens' = tokens
          /\ pending' = pending
       \/ now' # now
       \/ generated' # generated
       \/ \A t \in PresentedTokens, pw \in ResetPasswords :
             (t = "" \/ pw = "" \/ PasswordLength(pw) < 8) => ~ResetPassword(t, pw)]_vars

\* a stored, unexpired secret was presented with a password that is too short
InvalidResetWitness ==
    /\ resp = Response(400, "Password must be at least 8 characters")
    /\ \E r \in tokens : ~Expired(r.expires_at, now)

\* reset-password answers a request that presented t with pw, having found t stored
\* for user u and not expired
ValidResetAnswers(t, pw, u) ==
    \/ /\ LET rec == SelectByTokenHash(tokens, Sha256(t)) IN
            rec.user_id = u /\ ~Expired(rec.expires_at, now)
       /\ pending' = pending
       /\ ResetPassword(t, pw)
    \/ \E p \in BagToSet(pending) :
          /\ p.token = t /\ p.password = pw
          /\ p.rec.user_id = u /\ ~Expired(p.rec.expires_at, now)
          /\ ResetFinish(p)

\* the step replaces the password hash of u / removes the token row of u
HashReplaced(u) ==
    \E r \in users, q \in users' : r.id = u /\ q.id = u /\ q.password_hash # r.password_hash

TokenRemoved(u) ==
    (\E r \in tokens : r.user_id = u) /\ (\A r \in tokens' : r.user_id # u)

\* C34: a reset-password request that found the presented secret stored and unexpired
\* replaces the password hash of the owning user exactly when it removes that user's
\* token row, and when it is answered 500 it leaves the users and the token rows as
\* they were.
ResetAllOrNothing ==
    [][\/ now' # now
       \/ generated' # generated
       \/ \A t \in SecretSet, pw \in AcceptablePasswords, u \in UserIds :
             ValidResetAnswers(t, pw, u)
             => /\ HashReplaced(u) <=> TokenRemoved(u)
                /\ resp'.status = 500 => users' = users /\ tokens' = tokens]_vars

\* a request that presented a stored, unexpired secret has been answered 500
FailedResetWitness ==
    /\ resp = Response(500, "Failed to reset password")
    /\ hist.used # {}
    /\ \E r \in tokens : r.token_hash \in {Sha256(t) : t \in hist.used}

\* ------------------------------------------------------------ the life of a reset secret
\* Secrets[k] was issued and none of the three things has happened to it: no
\* reset-password request was answered 200 for it, no later forgot-password request
\* was made for its user, and its hour has not passed
Live(k) ==
    /\ hist.ok[k] = 0
    /\ \A j \in DOMAIN generated : j > k => generated[j].user # generated[k].user
    /\ now <= generated[k].at + TokenTtl

\* C36: a secret that was issued, not consumed, not replaced by a later request for
\* its user and not yet expired is stored for its user and accepted by
\* verify-reset-token and by reset-password.
LiveSecretAcceptable ==
    \A k \in DOMAIN generated :
        Live(k)
        => /\ \E r \in tokens :
                 r.user_id = generated[k].user /\ r.token_hash = Sha256(Secrets[k])
           /\ verifyResetToken(tokens, now, Secrets[k]) = Response(200, "valid: true")
           /\ \A pw \in AcceptablePasswords :
                 resetPassword(users, tokens, now, Secrets[k], pw).valid

\* a reset-password request that had found the first secret of a user was answered
\* after a forgot-password request had stored the second, which is still live
OlderSecretRacedWitness ==
    /\ USE_POSTGRES
    /\ Len(generated) = 2
    /\ generated[1].user = generated[2].user
    /\ hist.used = {Secrets[1]}
    /\ resp = Response(500, "Failed to reset password")
    /\ Live(2)

\* t was issued by forgot-password for user u
IssuedFor(t, u) ==
    /\ IsSecret(t)
    /\ SecretIndex(t) <= Len(generated)
    /\ generated[SecretIndex(t)].user = u

\* C37: a reset-password request changes the password hash of no user other than the
\* one its secret was issued for.
ResetChangesOwnerOnly ==
    [][\/ users' = users
       \/ \A t \in PresentedTokens, pw \in ResetPasswords :
             ResetAnswers(t, pw)
             => \A r \in users, q \in users' :
                   (q.id = r.id /\ q.password_hash # r.password_hash) => IssuedFor(t, r.id)]_vars

\* a second user has an account and a live secret of their own when a request that
\* presented the secret of the first user is answered
OtherUserWitness ==
    /\ Len(generated) = 2
    /\ generated[1].user # generated[2].user
    /\ Live(1) /\ Live(2)
    /\ hist.used = {Secrets[1]}
    /\ resp = Response(500, "Failed to reset password")

\* ------------------------------------------------------------ the validity probe
\* the two answers with which reset-password rejects a token as invalid or expired
TokenRejections ==
    {Response(400, "Invalid or expired reset token"),
     Response(400, "Reset token has expired. Please request a new one.")}

\* C39: verify-reset-token changes no row, and it answers valid: true exactly when
\* the presented secret matches a stored token whose expiry has not passed, which is
\* exactly when reset-password with that secret and an acceptable password would not
\* answer that the token is invalid or expired.
ProbeAgreesWithConsumption ==
    /\ [](\A t \in PresentedTokens \ {""} :
            LET valid == verifyResetToken(tokens, now, t) = Response(200, "valid: true") IN
            /\ valid <=> \E r \in tokens : r.token_hash = Sha256(t) /\ r.expires_at >= now
            /\ \A pw \in AcceptablePasswords :
                  valid <=> resetPassword(users, tokens, now, t, pw).resp \notin TokenRejections)
    /\ [][\/ users' = users /\ tokens' = tokens
          \/ \A t \in PresentedTokens : ~VerifyResetToken(t)]_vars

\* the probe has answered valid: false while the row of an expired token is stored
ProbeWitness ==
    /\ resp = Response(200, "valid: false")
    /\ \E r \in tokens : Expired(r.expires_at, now)

\* ------------------------------------------------------------ acknowledgment and write
\* one verified event of each reconciled kind, each for user u1
AcknowledgedRequests ==
    {ValidRequest(e) :
        e \in {Event("checkout.session.completed", "u1", "cus_1", Absent),
               Event("customer.subscription.updated", "u1", "cus_1", "trialing"),
               Event("customer.subscription.deleted", "u1", "cus_1", "canceled")}}

\* C33: when the webhook answers {received: true} to a verified checkout-completed,
\* subscription-updated or subscription-deleted event for an existing user, that
\* user's row holds the tier and status of the event in the state in which the answer
\* is sent.
WriteBeforeAcknowledgment ==
    [][\/ resp' # Response(200, "received: true")
       \/ \A r \in AcknowledgedRequests :
             (HasRow(users, r.body.userId) /\ Deliver(r))
             => LET row == RowOf(users', r.body.userId) IN
                <<row.subscription_tier, row.subscription_status>> = <<log'.tier, log'.status>>]_vars

\* ------------------------------------------------------------ what the reconciler leaves alone
\* verified events for each of the two users, and a cancellation that names its user
\* by the customer only
FrameRequests ==
    {ValidRequest(e) :
        e \in {Event("checkout.session.completed", "u1", "cus_1", Absent),
               Event("checkout.session.completed", "u2", "cus_2", Absent),
               Event("customer.subscription.updated", "u1", "cus_1", "trialing"),
               Event("customer.subscription.created", "u2", "cus_1", "canceled"),
               Event("customer.subscription.deleted", "u1", "cus_1", "canceled"),
               Event("customer.subscription.deleted", "u2", "cus_2", "canceled"),
               Event("customer.subscription.deleted", Absent, "cus_1", "canceled")}}

\* the users an event is for: the one it names, or the ones of its customer
Targets(e) ==
    IF e.userId # Absent THEN {e.userId}
    ELSE {r.id : r \in {x \in users : x.stripe_customer_id = e.customer}}

\* the step creates and removes no row, changes no row of a user outside ids, and
\* changes nothing but tier, status and customer reference in the others
OnlySubscriptionOf(ids) ==
    /\ {r.id : r \in users'} = {r.id : r \in users}
    /\ \A r \in users, q \in users' :
          q.id = r.id
          => /\ r.id \notin ids => q = r
             /\ q = [r EXCEPT !.subscription_tier = q.subscription_tier,
                              !.subscription_status = q.subscription_status,
                              !.stripe_customer_id = q.stripe_customer_id]

\* C38: handling a verified event for user u, and settling a statement issued for u,
\* creates no row, changes no row of another user, and changes nothing in u's row
\* but subscription_tier, subscription_status and stripe_customer_id.
ReconcilerFrame ==
    [][\/ users' = users
       \/ /\ \A r \in FrameRequests : Deliver(r) => OnlySubscriptionOf(Targets(r.body))
          /\ \A q \in BagToSet(inflight) :
                PgSettle(q) => OnlySubscriptionOf({q.params[Len(q.params)]})]_vars

\* u1 was upgraded by an event and u2 canceled by another, on the embedded backend
ReconcilerFrameWitness ==
    /\ ~USE_POSTGRES
    /\ \E r \in users : r.id = "u1" /\ r.subscription_tier = "pro"
                          /\ r.stripe_customer_id = "cus_1"
    /\ \E r \in users : r.id = "u2" /\ r.subscription_status = "canceled"
                          /\ r.stripe_customer_id = NULL
    /\ resp = Response(200, "received: true")

\* ------------------------------------------------------------ tables at startup
\* C35: when the server listens the tables exist: a start that finds no users table
\* runs setupTables before app.listen, on either backend.
TablesBeforeListening == boot.phase = "listening" => boot.tables

\* ------------------------------------------------------------ the database file
\* C31: on the embedded backend the file holds the current image after every call of
\* run, query or exec that resolved, and no call of get or all changes the file.
FileHoldsImage ==
    [][/\ (~USE_POSTGRES /\ answer'.ok)
          => /\ \A stmt \in FileStatements, f \in Faults :
                   Run(stmt, f) \/ Query(stmt, f) => file' = CurrentImage'
             /\ \A f \in Faults : Exec(f) => file' = CurrentImage'
       /\ \A f \in Faults :
             \/ \E stmt \in FileQueries : Get(stmt, f)
             \/ All(Stmt("SELECT * FROM users", <<>>), f)
             => file' = file]_vars

\* get has returned a row after the tables were created and two statements changed
\* rows that are in the file
FileWitness ==
    /\ ~USE_POSTGRES
    /\ answer.ok /\ answer.rows # {}
    /\ \E r \in file.users : r.subscription_tier = "pro"
    /\ \E r \in file.users : r.id = "u2"

\* ------------------------------------------------------------ numbered placeholders
\* the number of the placeholder at position i: the placeholders up to i, counted
Rank(text, i) == Cardinality({j \in 1..i : text[j] = "?"})

\* the text from position i on, with every placeholder written as $ and its number
RECURSIVE Numbered(_, _)
Numbered(text, i) ==
    IF i > Len(text) THEN <<>>
    ELSE (IF text[i] = "?" THEN <<"$">> \o Decimal(Rank(text, i)) ELSE <<text[i]>>)
             \o Numbered(text, i + 1)

\* C40: on the networked backend convertPlaceholders returns the text with its i-th
\* '?' replaced by '$i' and every other character in place; on the embedded backend
\* it returns the text as it was written.
PlaceholdersNumbered ==
    converted.done
    => converted.text = IF USE_POSTGRES THEN Numbered(written, 1) ELSE written

\* the five placeholders of the forgot-password upsert, converted
FivePlaceholdersWitness ==
    /\ USE_POSTGRES
    /\ written = <<"?", "?", "?", "?", "?">>
    /\ converted = [done |-> TRUE,
                    text |-> <<"$", "1", "$", "2", "$", "3", "$", "4", "$", "5">>]

====
